---- MODULE Spec2Model ----
(***************************************************************************)
(* A model of the network emulation harness of geth-local (cmd/ethemu,     *)
(* emu): the role and topology generator, the run descriptor store, the    *)
(* node orchestrator and the workload driver.                              *)
(*                                                                         *)
(* Each component is a sequential Go function (or goroutine); it is        *)
(* modelled statement by statement with a program counter.  Every          *)
(* component has a specification of its own; the variables that belong to  *)
(* the other components stay at their idle values there.                   *)
(***************************************************************************)
EXTENDS Integers, Sequences, FiniteSets, Bags, TLC

(***************************************************************************)
(* Bounds of the model.                                                    *)
(***************************************************************************)
\* largest node count (--nodes) the generator is run with
MaxNodes == 3
\* largest value of the --minpeer / --maxpeer / --peernum flags
MaxPeerFlag == 3
\* largest node count and --peernum the density policy is run with
MaxDensityNodes == 5
\* largest node count the role assigner is run with
MaxMinerNodes == 4
\* largest roster a stored run descriptor holds
MaxStoreNodes == 2
\* largest block period (--blocktime), latency and bandwidth flag
MaxPeriod == 1
\* largest roster the orchestrator is run on
MaxOrchNodes == 3
\* largest roster the workload tasks are run on
MaxWorkNodes == 3
\* largest roster a whole continuous run (start-up and workload) is run on
MaxRunNodes == 2
\* largest roster the benchmark drivers are run on
MaxBenchNodes == 2
\* most transactions the transaction-count driver submits in a run
MaxSubmitted == 2

VARIABLES
    \* ---- generator (gencmd.go, main.go:1545) ----
    gpc,        \* position in setMiners / setPeers
    policy,     \* "bounded" (gencmd.go setPeers) or "density" (main.go setPeers)
    nodes,      \* nodes []*emu.Node, indexed from 0: [Identity, Address, IsMiner, Peers]
    minersFlag, \* ctx.Int(MinersFlag)
    miners,     \* setMiners: miners mapset.Set[int]
    minPeer,    \* ctx.Int(MinPeerFlag)
    maxPeer,    \* ctx.Int(MaxPeerFlag)
    peerNum,    \* ctx.Int(PeerNumFlag)
    peers,      \* setPeers: peers []mapset.Set[int]
    i,          \* loop index i
    j,          \* loop index / drawn candidate j
    iter,       \* elements of peers[i] the range over Iter() has still to yield
    redrawn,    \* history: some draw of setMiners hit an index already in miners
    refEdge,    \* history: the reference rule connects the last pair on its draw
    \* ---- run descriptor store (emu/types.go) ----
    Global,     \* var Global Config of the current process
    file,       \* the content of <dataDir>/config.json
    err,        \* what the last LoadConfig / StoreConfig returned ("nil" or an error)
    before,     \* history: Global when the last LoadConfig / StoreConfig was called
    stored,     \* history: the descriptor config.json was last written from, if intact
    cpc,        \* position of the process that uses the store
    \* ---- ethemu (main.go:197-283) ----
    epc,        \* position of ethemu's own goroutine
    mineFlag,   \* ctx.Bool(MiningEnabledFlag)
    todo,       \* addresses the current range over a map has still to yield
    cur,        \* the node of the current loop iteration
    peerIdx,    \* index of the current peer in the node's peer list
    stacks,     \* the keys of nodes map[common.Address]*node.Node
    eths,       \* the keys of eths map[common.Address]*eth.Ethereum
    started,    \* the nodes utils.StartNode has started
    mining,     \* the nodes whose StartMining was called
    calls,      \* history: the bag of <<A, B>> with Server(A).AddPeer(Self(B)) called
    failed,     \* history: creating or starting some node failed
    tpc,        \* position of the transaction goroutine ("none": not launched)
    spc,        \* position of the sealing goroutine ("none": not launched)
    stopSig,    \* stopSig chan struct{}: "open" or "closed"
    stopped,    \* the nodes whose instance has shut down (Wait returns)
    addrs,      \* transaction task: addrs []common.Address
    from,       \* transaction task: from
    to,         \* transaction task: to
    delay,      \* transaction task: the timer's duration in ms
    sent,       \* what the last SendTransaction returned ("none": no call yet)
    sealers,    \* sealing task: sealers []*eth.Ethereum
    sealer,     \* sealing task: sealer
    worked,     \* history: the sealing task has called Miner().Work()
    timers,     \* the timer of each task's current iteration: "none", "armed", "expired"
    owed,       \* history, per task: timer expiries minus the operations that followed
    \* ---- benchmark ethemu (main.go:518-650) ----
    txMode,     \* ctx.Bool(utils.TxModeFlag.Name)
    blockLog,   \* block.csv: "none", "open", "synced" or "closed"
    txLog,      \* txs.csv: "none", "open", "synced" or "closed"
    xpc,        \* position of the transaction-count goroutine ("none": not launched)
    hpc,        \* position of the block-height goroutine ("none": not launched)
    bsealers,   \* sealers []*eth.Ethereum of the launched goroutine, indexed from 1
    xIdx,       \* transaction-count poll: index of the next sealer of the range
    xCounter,   \* transaction-count poll: counter
    txNum,      \* txNum
    hash,       \* hash: "none", "zero" (SendTransaction failed) or "tx"
    inPool,     \* the nodes whose transaction pool holds the transaction hash
    mined,      \* the nodes whose chain includes the transaction hash
    submitted,  \* history: the number of SendTransaction calls
    hIdx,       \* block-height poll: index of the next sealer of the range
    hCounter,   \* block-height poll: counter
    curHeight,  \* curHeight
    heights,    \* CurrentBlock().Number of every node
    sealing,    \* the node working on a block after Miner().Work()
    seals,      \* history: the number of Miner().Work() calls
    observed,   \* history: the nodes the current poll pass has read at curHeight
    rested,     \* history: no pool or chain was polled since the last time.Sleep
    \* a call of GetAddrById (emu/types.go)
    idArg,      \* its argument
    ranging,    \* the keys of Global.Nodes its range has not yielded yet
    result      \* what it returned

genVars == <<gpc, policy, nodes, minersFlag, miners, minPeer, maxPeer, peerNum,
             peers, i, j, iter, redrawn, refEdge>>

cfgVars == <<Global, file, err, before, stored, cpc>>

orchVars == <<epc, mineFlag, todo, cur, peerIdx, stacks, eths, started, mining, calls, failed>>

taskVars == <<tpc, spc, stopSig, stopped, addrs, from, to, delay, sent, sealers, sealer,
              worked, timers, owed>>

benchVars == <<txMode, blockLog, txLog, xpc, hpc, bsealers, xIdx, xCounter, txNum, hash,
               inPool, mined, submitted, hIdx, hCounter, curHeight, heights, sealing,
               seals, observed, rested>>

vars == <<genVars, cfgVars, orchVars, taskVars, benchVars, idArg, ranging, result>>

\* what the generator's steps leave alone
outsideGen == <<cfgVars, orchVars, taskVars, benchVars, idArg, ranging, result>>

\* what the store's steps leave alone
outsideCfg == <<genVars, orchVars, taskVars, benchVars, idArg, ranging, result>>

\* what the orchestrator's steps leave alone, Global apart
outsideOrch == <<genVars, file, err, before, stored, cpc, benchVars, idArg, ranging, result>>

(***************************************************************************)
(* emu.Node and the two generator helpers that run before role assignment  *)
(* and peering.                                                            *)
(***************************************************************************)
\* keystore.StoreKey: one fresh account per keystore directory; the
\* directory is named from the identity, so distinct identities get
\* distinct addresses.
StoreKey(id) == <<"acct", id>>

\* a zero emu.Node after setId and setAddr (Peers is the nil slice)
NewNode(id) == [Identity |-> id, Address |-> StoreKey(id), IsMiner |-> FALSE, Peers |-> <<>>]

\* nodes after make, setId and setAddr
MakeNodes(num) == [k \in 0..(num - 1) |-> NewNode(k)]

Len0(ns) == Cardinality(DOMAIN ns)

(***************************************************************************)
(* emu.Config and the idle values of the components.                       *)
(***************************************************************************)
\* a Go map: nil, or a finite function
NilMap == [isNil |-> TRUE, m |-> [a \in {} |-> 0]]
MakeMap(f) == [isNil |-> FALSE, m |-> f]

\* the zero value of emu.Config (var Global Config of a fresh process)
ZeroConfig ==
    [Period |-> 0, MinTxInterval |-> 0, MaxTxInterval |-> 0, Nodes |-> NilMap,
     Latency |-> 0, Bandwidth |-> 0]

\* no config.json in the data directory
Absent == <<"absent">>

\* history value: config.json is not the output of a StoreConfig
NotStored == [isSome |-> FALSE, d |-> ZeroConfig]
StoredFrom(d) == [isSome |-> TRUE, d |-> d]

CfgIdle ==
    /\ Global = ZeroConfig /\ file = Absent /\ err = "nil"
    /\ before = ZeroConfig /\ stored = NotStored /\ cpc = "idle"

GenIdle ==
    /\ gpc = "idle" /\ policy = "none" /\ nodes = <<>> /\ minersFlag = 0 /\ miners = {}
    /\ minPeer = 0 /\ maxPeer = 0 /\ peerNum = 0 /\ peers = <<>> /\ i = 0 /\ j = 0
    /\ iter = {} /\ redrawn = FALSE /\ refEdge = FALSE

\* no address: the value of cur outside a loop iteration
NoAddr == <<"acct", -1>>

\* no call of GetAddrById has returned
NoResult == [addr |-> NoAddr, err |-> "none"]

TaskIdle ==
    /\ tpc = "none" /\ spc = "none" /\ stopSig = "open" /\ stopped = {}
    /\ addrs = {} /\ from = NoAddr /\ to = NoAddr /\ delay = 0 /\ sent = "none"
    /\ sealers = {} /\ sealer = NoAddr /\ worked = FALSE
    /\ timers = [tx |-> "none", seal |-> "none"] /\ owed = [tx |-> 0, seal |-> 0]

\* no address-keyed table yet
NoTable == [a \in {} |-> 0]

BenchIdle ==
    /\ txMode = FALSE /\ blockLog = "none" /\ txLog = "none"
    /\ xpc = "none" /\ hpc = "none" /\ bsealers = <<>>
    /\ xIdx = 0 /\ xCounter = 0 /\ txNum = 0 /\ hash = "none"
    /\ inPool = {} /\ mined = {} /\ submitted = 0
    /\ hIdx = 0 /\ hCounter = 0 /\ curHeight = 0 /\ heights = NoTable
    /\ sealing = NoAddr /\ seals = 0 /\ observed = {} /\ rested = TRUE

EmuIdle ==
    /\ epc = "idle" /\ mineFlag = FALSE /\ todo = {} /\ cur = NoAddr /\ peerIdx = 0
    /\ stacks = {} /\ eths = {} /\ started = {} /\ mining = {}
    /\ calls = EmptyBag /\ failed = FALSE
    /\ TaskIdle
    /\ BenchIdle

(***************************************************************************)
(* setMiners (gencmd.go:65-74)                                             *)
(***************************************************************************)
MinersLoopCondMutant == Cardinality(miners) <= minersFlag

\* line 68: for miners.Cardinality() < num
MinersLoopCond == Cardinality(miners) < minersFlag

\* line 68: the loop test
MinersTest ==
    /\ gpc = "miners_test"
    /\ IF MinersLoopCond THEN gpc' = "miners_draw" ELSE gpc' = "miners_assign"
    /\ i' = 0
    /\ UNCHANGED <<policy, nodes, minersFlag, miners, minPeer, maxPeer, peerNum, peers, j, iter, redrawn,
                 refEdge, outsideGen>>

\* the drawn index is not added to the set
MinersDrawMutant ==
    /\ gpc = "miners_draw"
    /\ \E k \in 0..(Len0(nodes) - 1) :
         /\ miners' = miners
         /\ redrawn' = (redrawn \/ k \in miners)
    /\ gpc' = "miners_test"
    /\ UNCHANGED <<policy, nodes, minersFlag, minPeer, maxPeer, peerNum, peers, i, j, iter,
                 refEdge, outsideGen>>

\* line 69: miners.Add(mrand.Intn(len(nodes)))
MinersDraw ==
    /\ gpc = "miners_draw"
    /\ \E k \in 0..(Len0(nodes) - 1) :
         /\ miners' = miners \cup {k}
         /\ redrawn' = (redrawn \/ k \in miners)
    /\ gpc' = "miners_test"
    /\ UNCHANGED <<policy, nodes, minersFlag, minPeer, maxPeer, peerNum, peers, i, j, iter,
                 refEdge, outsideGen>>

\* lines 71-73: node.IsMiner = miners.Contains(i), one node per step
MinersAssign ==
    /\ gpc = "miners_assign"
    /\ IF i < Len0(nodes)
         THEN /\ nodes' = [nodes EXCEPT ![i].IsMiner = (i \in miners)]
              /\ i' = i + 1
              /\ gpc' = gpc
         ELSE /\ gpc' = "miners_done"
              /\ UNCHANGED <<nodes, i>>
    /\ UNCHANGED <<policy, minersFlag, miners, minPeer, maxPeer, peerNum, peers, j, iter, redrawn,
                 refEdge, outsideGen>>

MinersInit ==
    /\ gpc = "miners_test"
    /\ \E num \in 1..MaxMinerNodes :
         /\ nodes = MakeNodes(num)
         /\ minersFlag \in 0..num
    /\ policy = "none" /\ miners = {} /\ minPeer = 0 /\ maxPeer = 0
    /\ peerNum = 0 /\ peers = <<>> /\ i = 0 /\ j = 0 /\ iter = {}
    /\ redrawn = FALSE /\ refEdge = FALSE
    /\ CfgIdle /\ EmuIdle
    /\ idArg = <<>> /\ ranging = {} /\ result = NoResult

MinersNext == MinersTest \/ MinersDraw \/ MinersAssign

SpecMiners == MinersInit /\ [][MinersNext]_vars

\* the Go scheduler keeps running setMiners, and a uniform draw that is
\* repeated without end yields an index outside the set
FairSpecMiners ==
    SpecMiners /\ WF_vars(MinersNext) /\ SF_vars(MinersDraw /\ miners' # miners)

\* the nodes flagged as miners / not flagged
MinerIds == {k \in DOMAIN nodes : nodes[k].IsMiner}
NonMinerIds == {k \in DOMAIN nodes : ~nodes[k].IsMiner}

\* C4: when setMiners has returned, exactly minersFlag (M) nodes have
\* IsMiner = true and exactly N - M have IsMiner = false, whatever indices
\* were drawn and however often an index was drawn again.
C4_MinerCount ==
    gpc = "miners_done" =>
        /\ Cardinality(MinerIds) = minersFlag
        /\ Cardinality(NonMinerIds) = Len0(nodes) - minersFlag

\* setMiners has returned for 0 < M < N after drawing some index twice
C4_Witness ==
    /\ gpc = "miners_done"
    /\ redrawn
    /\ minersFlag > 0 /\ minersFlag < Len0(nodes)
    /\ Cardinality(MinerIds) = minersFlag

(***************************************************************************)
(* setPeers, degree-bounded policy (gencmd.go:94-127)                      *)
(***************************************************************************)
CheckMutant ==
    \A k \in DOMAIN peers :
        ~(Cardinality(peers[k]) < minPeer /\ Cardinality(peers[k]) > maxPeer)

\* lines 101-108: check := func() bool
Check ==
    \A k \in DOMAIN peers :
        ~(Cardinality(peers[k]) < minPeer \/ Cardinality(peers[k]) > maxPeer)

SkipCandidateMutant(a, b) == Cardinality(peers[b]) >= maxPeer

\* line 113: if j == i || peers[j].Cardinality() >= maxPeer { continue }
SkipCandidate(a, b) == b = a \/ Cardinality(peers[b]) >= maxPeer

\* line 109: for !check()
PeersCheck ==
    /\ gpc = "peers_check"
    /\ IF Check
         THEN /\ gpc' = "peers_emit"
              /\ iter' = IF 0 \in DOMAIN peers THEN peers[0] ELSE {}
         ELSE /\ gpc' = "peers_pass"
              /\ iter' = iter
    /\ i' = 0
    /\ UNCHANGED <<policy, nodes, minersFlag, miners, minPeer, maxPeer, peerNum, peers, j, redrawn,
                 refEdge, outsideGen>>

\* lines 110-111: for i := range nodes { for peers[i].Cardinality() < minPeer
PeersPass ==
    /\ gpc = "peers_pass"
    /\ IF i >= Len0(nodes)
         THEN gpc' = "peers_check" /\ i' = i
         ELSE IF Cardinality(peers[i]) < minPeer
                THEN gpc' = "peers_draw" /\ i' = i
                ELSE gpc' = gpc /\ i' = i + 1
    /\ UNCHANGED <<policy, nodes, minersFlag, miners, minPeer, maxPeer, peerNum, peers, j, iter, redrawn,
                 refEdge, outsideGen>>

\* line 112: j := mrand.Intn(len(nodes))
PeersDraw ==
    /\ gpc = "peers_draw"
    /\ j' \in 0..(Len0(nodes) - 1)
    /\ gpc' = "peers_test"
    /\ UNCHANGED <<policy, nodes, minersFlag, miners, minPeer, maxPeer, peerNum, peers, i, iter, redrawn,
                 refEdge, outsideGen>>

\* the candidate is skipped only when it is i itself
PeersTestMutant ==
    /\ gpc = "peers_test"
    /\ IF j = i
         THEN peers' = peers
         ELSE peers' = [peers EXCEPT ![i] = peers[i] \cup {j}, ![j] = peers[j] \cup {i}]
    /\ gpc' = "peers_pass"
    /\ UNCHANGED <<policy, nodes, minersFlag, miners, minPeer, maxPeer, peerNum, i, j, iter, redrawn,
                 refEdge, outsideGen>>

\* lines 113-117: skip the candidate, or add the symmetric edge
PeersTest ==
    /\ gpc = "peers_test"
    /\ IF SkipCandidate(i, j)
         THEN peers' = peers
         ELSE peers' = [peers EXCEPT ![i] = peers[i] \cup {j}, ![j] = peers[j] \cup {i}]
    /\ gpc' = "peers_pass"
    /\ UNCHANGED <<policy, nodes, minersFlag, miners, minPeer, maxPeer, peerNum, i, j, iter, redrawn,
                 refEdge, outsideGen>>

\* lines 122-126: nodes[i].Peers = append(nodes[i].Peers, nodes[peer].Address);
\* the set yields its elements in no fixed order
PeersEmit ==
    /\ gpc = "peers_emit"
    /\ IF i >= Len0(nodes)
         THEN /\ gpc' = "peers_done"
              /\ UNCHANGED <<nodes, i, iter>>
         ELSE IF iter = {}
                THEN /\ i' = i + 1
                     /\ iter' = IF i + 1 \in DOMAIN peers THEN peers[i + 1] ELSE {}
                     /\ UNCHANGED <<nodes, gpc>>
                ELSE \E peer \in iter :
                     /\ nodes' = [nodes EXCEPT ![i].Peers = Append(@, nodes[peer].Address)]
                     /\ iter' = iter \ {peer}
                     /\ UNCHANGED <<i, gpc>>
    /\ UNCHANGED <<policy, minersFlag, miners, minPeer, maxPeer, peerNum, peers, j, redrawn,
                 refEdge, outsideGen>>

(***************************************************************************)
(* setPeers, density-probability policy (main.go:1545-1566)                *)
(***************************************************************************)
\* rand.Intn(100)
DrawRange == 100

Abs(x) == IF x < 0 THEN -x ELSE x
Min2(x, y) == IF x < y THEN x ELSE y

\* maxDist without the halving
MaxDistMutant == Len0(nodes)

\* line 1555: maxDist := len(nodes) / 2
MaxDist == Len0(nodes) \div 2

\* lines 1547-1551: theta is 1 iff dens - min(dis, n-dis)/maxDis >= 0, with
\* dens = peerNum/(n-1); both quotients have positive denominators when a
\* pair exists (n >= 2), so the test is the cross-multiplied one.
Theta(a, b) ==
    IF peerNum * MaxDist >= Min2(Abs(a - b), Len0(nodes) - Abs(a - b)) * (Len0(nodes) - 1)
      THEN 1 ELSE 0

\* lines 1552, 1558-1559: randNum < prop*dens + (1-prop)*theta with
\* randNum = r/100 and prop = 0.25, multiplied through by 400*(n-1)
Connects(r, a, b) ==
    4 * r * (Len0(nodes) - 1) < DrawRange * peerNum + 3 * DrawRange * Theta(a, b) * (Len0(nodes) - 1)

\* the reference rule of the density policy, in exact arithmetic: with
\* density = peerNum/(n-1), theta = 1 iff min(|a-b|, n-|a-b|)/(n/2) <= density
\* (n/2 not rounded), the pair is connected iff r/100 < 0.25*density +
\* 0.75*theta; both tests multiplied through by their denominators
RefTheta(a, b) ==
    IF 2 * Min2(Abs(a - b), Len0(nodes) - Abs(a - b)) * (Len0(nodes) - 1) <= peerNum * Len0(nodes)
      THEN 1 ELSE 0

RefConnects(r, a, b) ==
    4 * r * (Len0(nodes) - 1) < 100 * peerNum + 300 * RefTheta(a, b) * (Len0(nodes) - 1)

\* lines 1556-1565: one step per pair (i, j), i < j
DensityPair ==
    /\ gpc = "density_pair"
    /\ IF i >= Len0(nodes)
         THEN /\ gpc' = "peers_done"
              /\ UNCHANGED <<nodes, i, j, refEdge>>
         ELSE IF j >= Len0(nodes)
                THEN /\ i' = i + 1
                     /\ j' = i + 2
                     /\ UNCHANGED <<nodes, gpc, refEdge>>
                ELSE \E r \in 0..(DrawRange - 1) :
                     /\ IF Connects(r, i, j)
                          THEN nodes' = [nodes EXCEPT ![i].Peers = Append(@, nodes[j].Address),
                                                      ![j].Peers = Append(@, nodes[i].Address)]
                          ELSE nodes' = nodes
                     /\ refEdge' = RefConnects(r, i, j)
                     /\ j' = j + 1
                     /\ UNCHANGED <<i, gpc>>
    /\ UNCHANGED <<policy, minersFlag, miners, minPeer, maxPeer, peerNum, peers, iter, redrawn,
                 outsideGen>>

PeersInit ==
    /\ policy \in {"bounded", "density"}
    /\ \E num \in 1..(IF policy = "bounded" THEN MaxNodes ELSE MaxDensityNodes) :
         /\ nodes = MakeNodes(num)
         /\ peers = [k \in 0..(num - 1) |-> {}]
    /\ IF policy = "bounded"
         THEN /\ gpc = "peers_check"
              /\ minPeer \in 0..MaxPeerFlag
              /\ maxPeer \in 0..MaxPeerFlag
              /\ peerNum = 0
              /\ j = 0
         ELSE /\ gpc = "density_pair"
              /\ minPeer = 0 /\ maxPeer = 0
              /\ peerNum \in 0..MaxDensityNodes
              /\ j = 1
    /\ minersFlag = 0 /\ miners = {} /\ i = 0 /\ iter = {} /\ redrawn = FALSE
    /\ refEdge = FALSE
    /\ CfgIdle /\ EmuIdle
    /\ idArg = <<>> /\ ranging = {} /\ result = NoResult

PeersNext == PeersCheck \/ PeersPass \/ PeersDraw \/ PeersTest \/ PeersEmit \/ DensityPair

SpecPeers == PeersInit /\ [][PeersNext]_vars

\* the Go scheduler keeps running the generator while it has a next statement
FairSpecPeers == SpecPeers /\ WF_vars(PeersNext)

\* the identities whose address a node lists
PeerIds(a) == {k \in DOMAIN nodes : \E n \in 1..Len(nodes[a].Peers) : nodes[a].Peers[n] = nodes[k].Address}

\* C1: whenever the degree-bounded setPeers returns, every node's degree d
\* (the size of its peer set, and the length of the peer list written from
\* it) satisfies minPeer <= d <= maxPeer.
C1_DegreeInBounds ==
    (policy = "bounded" /\ gpc = "peers_done") =>
        \A k \in DOMAIN nodes :
            /\ minPeer <= Cardinality(peers[k]) /\ Cardinality(peers[k]) <= maxPeer
            /\ minPeer <= Len(nodes[k].Peers) /\ Len(nodes[k].Peers) <= maxPeer

\* the degree-bounded setPeers has returned a graph with an edge for 3 nodes
C1_Witness ==
    /\ policy = "bounded" /\ gpc = "peers_done"
    /\ Len0(nodes) = 3 /\ minPeer >= 1 /\ maxPeer >= 2
    /\ \E k \in DOMAIN nodes : Len(nodes[k].Peers) = 2

\* C2: under both policies the peer lists written into the nodes form a
\* simple undirected graph: B's address is in A.Peers iff A's address is in
\* B.Peers, no node lists its own address, no address is listed twice (and
\* every listed address is a node's).
C2_SimpleUndirected ==
    gpc = "peers_done" =>
        \A a \in DOMAIN nodes :
            /\ \A b \in DOMAIN nodes : (b \in PeerIds(a)) <=> (a \in PeerIds(b))
            /\ a \notin PeerIds(a)
            /\ \A m, n \in 1..Len(nodes[a].Peers) :
                   nodes[a].Peers[m] = nodes[a].Peers[n] => m = n
            /\ \A n \in 1..Len(nodes[a].Peers) :
                   \E b \in DOMAIN nodes : nodes[a].Peers[n] = nodes[b].Address

\* the density policy has returned a graph with an edge and a missing edge
C2_Witness ==
    /\ policy = "density" /\ gpc = "peers_done"
    /\ Len0(nodes) = 3
    /\ \E a, b \in DOMAIN nodes : a # b /\ b \in PeerIds(a) /\ a \in PeerIds(b)
    /\ \E a, b \in DOMAIN nodes : a # b /\ b \notin PeerIds(a)

\* the flags admit no graph: a node cannot have minPeer peers among the
\* others, or minPeer exceeds maxPeer
Infeasible ==
    /\ policy = "bounded"
    /\ (minPeer > Len0(nodes) - 1 \/ minPeer > maxPeer)

\* C3: for infeasible constraints the degree-bounded setPeers stops after a
\* bounded number of iterations (it is guarded by an iteration cap) instead
\* of looping forever.
C3_InfeasibleStops == Infeasible ~> (gpc = "peers_done")

(***************************************************************************)
(* The run descriptor store (emu/types.go:50-66): encoding/json over       *)
(* emu.Config.  A JSON value is a tagged tuple.                            *)
(***************************************************************************)
JNull == <<"null">>
JBool(b) == <<"bool", b>>
JNum(digits) == <<"number", digits>>
JStr(t) == <<"string", t>>
JArr(seq) == <<"array", seq>>
JObj(f) == <<"object", f>>

\* strconv: a uint64 as its decimal digits, and back
RECURSIVE Digits(_)
Digits(n) == IF n < 10 THEN <<n>> ELSE Append(Digits(n \div 10), n % 10)

RECURSIVE ParseDigits(_)
ParseDigits(ds) ==
    IF Len(ds) = 0 THEN 0
    ELSE 10 * ParseDigits(SubSeq(ds, 1, Len(ds) - 1)) + ds[Len(ds)]

\* common.Address.MarshalText / UnmarshalText: the 0x-prefixed hex text
HexText(a) == <<"0x", a[2]>>
FromHex(t) == <<"acct", t[2]>>

\* a []common.Address: the nil slice encodes as null
MarshalPeers(ps) ==
    IF Len(ps) = 0 THEN JNull ELSE JArr([n \in 1..Len(ps) |-> JStr(HexText(ps[n]))])

MarshalNodeMutant(n) ==
    JObj([Identity |-> JNum(Digits(n.Identity)),
          Address  |-> JStr(HexText(n.Address)),
          Peers    |-> MarshalPeers(n.Peers)])

\* an emu.Node (types.go:7-12), fields in declaration order
MarshalNode(n) ==
    JObj([Identity |-> JNum(Digits(n.Identity)),
          Address  |-> JStr(HexText(n.Address)),
          IsMiner  |-> JBool(n.IsMiner),
          Peers    |-> MarshalPeers(n.Peers)])

\* a map[common.Address]*Node: nil encodes as null, keys as their hex text
MarshalNodes(ns) ==
    IF ns.isNil THEN JNull
    ELSE JObj([t \in {HexText(a) : a \in DOMAIN ns.m} |-> MarshalNode(ns.m[FromHex(t)])])

\* line 60: json.MarshalIndent(Global, "", "  ")
MarshalConfig(c) ==
    JObj([Period        |-> JNum(Digits(c.Period)),
          MinTxInterval |-> JNum(Digits(c.MinTxInterval)),
          MaxTxInterval |-> JNum(Digits(c.MaxTxInterval)),
          Nodes         |-> MarshalNodes(c.Nodes),
          Latency       |-> JNum(Digits(c.Latency)),
          Bandwidth     |-> JNum(Digits(c.Bandwidth))])

\* the decoder results: the value and whether a type error was met
Decoded(v, bad) == [val |-> v, bad |-> bad]

\* a uint64 field: a number is parsed, null leaves the field, anything
\* else is an UnmarshalTypeError that leaves the field
DecodeUint(obj, key, old) ==
    IF key \notin DOMAIN obj THEN Decoded(old, FALSE)
    ELSE IF obj[key][1] = "number" THEN Decoded(ParseDigits(obj[key][2]), FALSE)
    ELSE IF obj[key][1] = "null" THEN Decoded(old, FALSE)
    ELSE Decoded(old, TRUE)

DecodeBool(obj, key, old) ==
    IF key \notin DOMAIN obj THEN Decoded(old, FALSE)
    ELSE IF obj[key][1] = "bool" THEN Decoded(obj[key][2], FALSE)
    ELSE IF obj[key][1] = "null" THEN Decoded(old, FALSE)
    ELSE Decoded(old, TRUE)

DecodeAddress(obj, key, old) ==
    IF key \notin DOMAIN obj THEN Decoded(old, FALSE)
    ELSE IF obj[key][1] = "string" THEN Decoded(FromHex(obj[key][2]), FALSE)
    ELSE IF obj[key][1] = "null" THEN Decoded(old, FALSE)
    ELSE Decoded(old, TRUE)

\* a []common.Address field: null sets the nil slice, an array a new slice
DecodePeers(obj, key, old) ==
    IF key \notin DOMAIN obj THEN Decoded(old, FALSE)
    ELSE IF obj[key][1] = "null" THEN Decoded(<<>>, FALSE)
    ELSE IF obj[key][1] = "array"
      THEN Decoded([n \in 1..Len(obj[key][2]) |-> FromHex(obj[key][2][n][2])], FALSE)
    ELSE Decoded(old, TRUE)

\* the zero emu.Node a map element is decoded into
ZeroNode == [Identity |-> 0, Address |-> <<"acct", 0>>, IsMiner |-> FALSE, Peers |-> <<>>]

\* a *Node map element: always a fresh Node, filled from the object
DecodeNode(v) ==
    IF v[1] # "object" THEN Decoded(ZeroNode, TRUE)
    ELSE LET id == DecodeUint(v[2], "Identity", ZeroNode.Identity)
             ad == DecodeAddress(v[2], "Address", ZeroNode.Address)
             mi == DecodeBool(v[2], "IsMiner", ZeroNode.IsMiner)
             ps == DecodePeers(v[2], "Peers", ZeroNode.Peers)
         IN  Decoded([Identity |-> id.val, Address |-> ad.val, IsMiner |-> mi.val,
                      Peers |-> ps.val],
                     id.bad \/ ad.bad \/ mi.bad \/ ps.bad)

\* the decoder reuses the map it is given: entries of the object are set,
\* entries under other keys stay
MergeEntries(old, obj) ==
    [a \in (DOMAIN old) \cup {FromHex(t) : t \in DOMAIN obj} |->
        IF HexText(a) \in DOMAIN obj THEN DecodeNode(obj[HexText(a)]).val ELSE old[a]]

\* the Nodes field: null sets the nil map; an object is decoded into the
\* existing map (a new one if it is nil)
DecodeNodes(obj, key, old) ==
    IF key \notin DOMAIN obj THEN Decoded(old, FALSE)
    ELSE IF obj[key][1] = "null" THEN Decoded(NilMap, FALSE)
    ELSE IF obj[key][1] = "object"
      THEN Decoded(MakeMap(MergeEntries(old.m, obj[key][2])),
                   \E t \in DOMAIN obj[key][2] : DecodeNode(obj[key][2][t]).bad)
    ELSE Decoded(old, TRUE)

\* line 56: json.Unmarshal(bytes, &Global) for syntactically valid bytes:
\* fields present in the document are set, the others keep their value; the
\* first type error is returned after the rest has been decoded
Unmarshal(doc, g) ==
    IF doc[1] = "null" THEN [err |-> "nil", g |-> g]
    ELSE IF doc[1] # "object" THEN [err |-> "UnmarshalTypeError", g |-> g]
    ELSE LET pe == DecodeUint(doc[2], "Period", g.Period)
             mn == DecodeUint(doc[2], "MinTxInterval", g.MinTxInterval)
             mx == DecodeUint(doc[2], "MaxTxInterval", g.MaxTxInterval)
             ns == DecodeNodes(doc[2], "Nodes", g.Nodes)
             la == DecodeUint(doc[2], "Latency", g.Latency)
             bw == DecodeUint(doc[2], "Bandwidth", g.Bandwidth)
         IN  [err |-> IF pe.bad \/ mn.bad \/ mx.bad \/ ns.bad \/ la.bad \/ bw.bad
                        THEN "UnmarshalTypeError" ELSE "nil",
              g |-> [Period |-> pe.val, MinTxInterval |-> mn.val, MaxTxInterval |-> mx.val,
                     Nodes |-> ns.val, Latency |-> la.val, Bandwidth |-> bw.val]]

\* bytes that are not JSON, e.g. a truncated file
Garbage == <<"garbage">>
JsonFile(doc) == <<"json", doc>>

LoadReadErrorMutant(f, g) == [err |-> "nil", g |-> g]

\* lines 52-55: os.ReadFile fails when there is no config.json
LoadReadError(f, g) == [err |-> "ENOENT", g |-> g]

\* lines 50-57: LoadConfig; json.Unmarshal checks the syntax of the whole
\* input before it decodes anything
LoadConfig(f, g) ==
    IF f = Absent THEN LoadReadError(f, g)
    ELSE IF f = Garbage THEN [err |-> "SyntaxError", g |-> g]
    ELSE Unmarshal(f[2], g)

(***************************************************************************)
(* The descriptors generateConfig builds in Global (gencmd.go:55-61,       *)
(* main.go:1517-1523).                                                     *)
(***************************************************************************)
\* the elements of a set of numbers in ascending order
RECURSIVE Ascending(_)
Ascending(S) ==
    IF S = {} THEN <<>>
    ELSE LET lo == CHOOSE x \in S : \A y \in S : x <= y
         IN  <<lo>> \o Ascending(S \ {lo})

\* the unordered pairs of identities below num
Pairs(num) == {e \in (0..(num - 1)) \X (0..(num - 1)) : e[1] < e[2]}

Neighbours(k, edges) ==
    {e[2] : e \in {x \in edges : x[1] = k}} \cup {e[1] : e \in {x \in edges : x[2] = k}}

\* node k of a generated roster: the miners ms, the simple graph edges
RosterNode(k, ms, edges) ==
    [Identity |-> k, Address |-> StoreKey(k), IsMiner |-> (k \in ms),
     Peers |-> [n \in 1..Cardinality(Neighbours(k, edges)) |->
                   StoreKey(Ascending(Neighbours(k, edges))[n])]]

\* gencmd.go:58-61: Global.Nodes keyed by address
Roster(num, ms, edges) ==
    MakeMap([a \in {StoreKey(k) : k \in 0..(num - 1)} |-> RosterNode(a[2], ms, edges)])

Rosters(maxNum) ==
    UNION {{Roster(num, ms, edges) : ms \in SUBSET (0..(num - 1)), edges \in SUBSET Pairs(num)}
           : num \in 0..maxNum}

\* gencmd.go:55-57
GenParams(blockTime, minTx, maxTx) ==
    [Period |-> blockTime,
     MinTxInterval |-> (blockTime * 1000) \div maxTx,
     MaxTxInterval |-> (blockTime * 1000) \div minTx,
     Latency |-> 0, Bandwidth |-> 0]

\* main.go:1517-1518
NetParams(latency, bandwidth) ==
    [Period |-> 0, MinTxInterval |-> 0, MaxTxInterval |-> 0,
     Latency |-> latency, Bandwidth |-> bandwidth]

WithNodes(ps, ns) ==
    [Period |-> ps.Period, MinTxInterval |-> ps.MinTxInterval,
     MaxTxInterval |-> ps.MaxTxInterval, Nodes |-> ns,
     Latency |-> ps.Latency, Bandwidth |-> ps.Bandwidth]

ParamChoices ==
    {GenParams(p, p, p + 1) : p \in 1..MaxPeriod} \cup {NetParams(p, p + 1) : p \in 1..MaxPeriod}

Descriptors == {WithNodes(ps, ns) : ps \in ParamChoices, ns \in Rosters(MaxStoreNodes)}

(***************************************************************************)
(* The processes that use the store: gen (generateConfig, then             *)
(* StoreConfig) and the runs started afterwards (LoadConfig).              *)
(***************************************************************************)
\* lines 59-66: StoreConfig; os.WriteFile truncates, writes, and may fail
StoreConfigStep ==
    /\ cpc = "gen"
    /\ before' = Global
    /\ \/ /\ file' = JsonFile(MarshalConfig(Global))
          /\ err' = "nil"
          /\ stored' = StoredFrom(Global)
       \/ /\ file' = file
          /\ err' = "EACCES"
          /\ stored' = stored
       \/ /\ file' = Garbage
          /\ err' = "EIO"
          /\ stored' = NotStored
    /\ cpc' = "stored"
    /\ UNCHANGED <<Global, outsideCfg>>

\* lines 50-57: LoadConfig
LoadConfigStep ==
    /\ cpc \in {"gen", "run"}
    /\ before' = Global
    /\ err' = LoadConfig(file, Global).err
    /\ Global' = LoadConfig(file, Global).g
    /\ cpc' = "loaded"
    /\ UNCHANGED <<file, stored, outsideCfg>>

\* the process exits and a run is started: a new process, Global zero
NewProcess ==
    /\ cpc \in {"stored", "loaded", "tampered"}
    /\ Global' = ZeroConfig
    /\ err' = "nil"
    /\ before' = ZeroConfig
    /\ cpc' = "run"
    /\ UNCHANGED <<file, stored, outsideCfg>>

\* config.json with its Period replaced by a string
PeriodAsString(f) ==
    IF f[1] = "json" /\ f[2][1] = "object"
      THEN JsonFile(JObj([f[2][2] EXCEPT !.Period = JStr("soon")]))
      ELSE JsonFile(JArr(<<>>))

\* between two processes config.json is removed, truncated or edited
Tamper ==
    /\ cpc \in {"stored", "loaded"}
    /\ stored.isSome
    /\ file' \in {Absent, Garbage, JsonFile(JArr(<<>>)), PeriodAsString(file)}
    /\ stored' = NotStored
    /\ cpc' = "tampered"
    /\ UNCHANGED <<Global, err, before, outsideCfg>>

StoreInit ==
    /\ cpc = "gen"
    /\ Global \in Descriptors
    /\ \/ file = Absent /\ stored = NotStored
       \/ \E d \in Descriptors : file = JsonFile(MarshalConfig(d)) /\ stored = StoredFrom(d)
    /\ err = "nil"
    /\ before = ZeroConfig
    /\ GenIdle /\ EmuIdle
    /\ idArg = <<>> /\ ranging = {} /\ result = NoResult

StoreNext == StoreConfigStep \/ LoadConfigStep \/ NewProcess \/ Tamper

SpecStore == StoreInit /\ [][StoreNext]_vars

\* C5: round trip: when a process whose Global was empty has called
\* LoadConfig on the config.json that StoreConfig wrote from descriptor d,
\* LoadConfig returned nil and Global equals d (the five parameters and
\* the roster with identity, address, role and peer list per node).
C5_RoundTrip ==
    (cpc = "loaded" /\ before = ZeroConfig /\ stored.isSome) =>
        /\ err = "nil"
        /\ Global = stored.d

\* a fresh process has loaded a stored two-node roster with a miner and an edge
C5_Witness ==
    /\ cpc = "loaded" /\ before = ZeroConfig /\ stored.isSome
    /\ Global = stored.d
    /\ Global.Period > 0
    /\ \E a, b \in DOMAIN Global.Nodes.m :
          /\ a # b
          /\ Global.Nodes.m[a].IsMiner /\ ~Global.Nodes.m[b].IsMiner
          /\ Global.Nodes.m[a].Peers = <<b>>

\* config.json is there but is not an encoding of a Config: not JSON, or
\* JSON of another shape (an array, a string where a number belongs)
Corrupt ==
    \/ file = Garbage
    \/ file = JsonFile(JArr(<<>>))
    \/ file[1] = "json" /\ file[2][1] = "object" /\ file[2][2].Period[1] = "string"

\* C6: LoadConfig where no StoreConfig has occurred (no config.json)
\* returns an error and leaves Global unchanged; LoadConfig on a file that
\* is not a valid encoding returns an error.
C6_LoadErrors ==
    cpc = "loaded" =>
        /\ file = Absent => (err # "nil" /\ Global = before)
        /\ Corrupt => err # "nil"

\* a process holding a descriptor has called LoadConfig without config.json
C6_Witness ==
    /\ cpc = "loaded" /\ file = Absent
    /\ err = "ENOENT"
    /\ ~before.Nodes.isNil /\ Global = before

(***************************************************************************)
(* ethemu, orchestration (main.go:197-220) with makeFullNode               *)
(* (main.go:1220-1259) and startNode (main.go:288-318).                    *)
(***************************************************************************)
\* the roster: the keys of emu.Global.Nodes (none for the nil map)
RosterAddrs == DOMAIN Global.Nodes.m

NodeAt(a) == Global.Nodes.m[a]

\* the go statements placed before the loops over the roster
EmuLoadMutant ==
    /\ epc = "load"
    /\ Global' = LoadConfig(file, Global).g
    /\ todo' = DOMAIN Global'.Nodes.m
    /\ epc' = "make"
    /\ tpc' = "init" /\ spc' = "init"
    /\ UNCHANGED <<mineFlag, cur, peerIdx, stacks, eths, started, mining, calls, failed,
                   stopSig, stopped, addrs, from, to, delay, sent, sealers, sealer, worked,
                   timers, owed, outsideOrch>>

\* lines 198-200: the error LoadConfig returns is dropped
EmuLoad ==
    /\ epc = "load"
    /\ Global' = LoadConfig(file, Global).g
    /\ todo' = DOMAIN Global'.Nodes.m
    /\ epc' = "make"
    /\ UNCHANGED <<mineFlag, cur, peerIdx, stacks, eths, started, mining, calls, failed,
                   taskVars, outsideOrch>>

AfterCreateFailureMutant(rest) == IF rest = {} THEN "wire" ELSE "make"

\* main.go:1230-1237: utils.Fatalf ends the process
AfterCreateFailure(rest) == "fatal"

FirstPassDoneMutant == stacks # {}

\* line 205: the range over emu.Global.Nodes has yielded every node
FirstPassDone == todo = {}

\* lines 205-211: the next node of the range; makeFullNode creates its
\* stack and backend or ends the process; both maps get the entry
EmuMake ==
    /\ epc = "make"
    /\ IF FirstPassDone
         THEN /\ epc' = "wire"
              /\ todo' = RosterAddrs
              /\ UNCHANGED <<cur, stacks, eths, failed>>
         ELSE \E a \in todo :
              \/ /\ cur' = a
                 /\ stacks' = stacks \cup {NodeAt(a).Address}
                 /\ eths' = eths \cup {NodeAt(a).Address}
                 /\ epc' = "start"
                 /\ UNCHANGED <<todo, failed>>
              \/ /\ failed' = TRUE
                 /\ todo' = todo \ {a}
                 /\ epc' = AfterCreateFailure(todo \ {a})
                 /\ UNCHANGED <<cur, stacks, eths>>
    /\ UNCHANGED <<Global, mineFlag, peerIdx, started, mining, calls, taskVars, outsideOrch>>

\* utils.StartNode (cmd/utils, not in the sources): a node that fails to
\* start is fatal
AfterStartFailure == "fatal"

\* mining started on every node, whatever its role
MiningWantedMutant(a) == TRUE

\* line 300: if ctx.Bool(MiningEnabledFlag) || emuNode.IsMiner
MiningWanted(a) == mineFlag \/ NodeAt(a).IsMiner

\* lines 213, 288-318: startNode starts the node, then the miner if wanted
\* (lines 300-317); a failure of either ends the process (utils.Fatalf)
EmuStart ==
    /\ epc = "start"
    /\ \/ /\ started' = started \cup {cur}
          /\ \/ /\ mining' = IF MiningWanted(cur) THEN mining \cup {cur} ELSE mining
                /\ todo' = todo \ {cur}
                /\ epc' = "make"
                /\ UNCHANGED failed
             \/ /\ MiningWanted(cur)
                /\ failed' = TRUE
                /\ epc' = "fatal"
                /\ UNCHANGED <<mining, todo>>
       \/ /\ failed' = TRUE
          /\ epc' = AfterStartFailure
          /\ UNCHANGED <<started, mining, todo>>
    /\ UNCHANGED <<Global, mineFlag, cur, peerIdx, stacks, eths, calls, taskVars, outsideOrch>>

WireTargetMutant(a, n) == NodeAt(a).Peers[1]

\* line 218: nodes[peer] for the n-th peer of node a
WireTarget(a, n) == NodeAt(a).Peers[n]

\* line 216: the next node of the second range
EmuWireNode ==
    /\ epc = "wire"
    /\ IF todo = {}
         THEN /\ epc' = "spawn"
              /\ cur' = NoAddr
              /\ peerIdx' = 0
              /\ UNCHANGED todo
         ELSE \E a \in todo :
              /\ cur' = a
              /\ peerIdx' = 1
              /\ todo' = todo \ {a}
              /\ epc' = "wire_peer"
    /\ UNCHANGED <<Global, mineFlag, stacks, eths, started, mining, calls, failed,
                   taskVars, outsideOrch>>

\* lines 217-219: nodes[node.Address].Server().AddPeer(nodes[peer].Server().Self())
EmuAddPeer ==
    /\ epc = "wire_peer"
    /\ IF peerIdx <= Len(NodeAt(cur).Peers)
         THEN /\ calls' = calls (+) SetToBag({<<NodeAt(cur).Address, WireTarget(cur, peerIdx)>>})
              /\ peerIdx' = peerIdx + 1
              /\ epc' = epc
         ELSE /\ epc' = "wire"
              /\ UNCHANGED <<calls, peerIdx>>
    /\ UNCHANGED <<Global, mineFlag, todo, cur, stacks, eths, started, mining, failed,
                   taskVars, outsideOrch>>

\* lines 222, 248: the two go statements
EmuSpawn ==
    /\ epc = "spawn"
    /\ tpc' = "init"
    /\ spc' = "init"
    /\ epc' = "wait"
    /\ UNCHANGED <<Global, mineFlag, todo, cur, peerIdx, stacks, eths, started, mining,
                   calls, failed, stopSig, stopped, addrs, from, to, delay, sent, sealers,
                   sealer, worked, timers, owed, outsideOrch>>

\* the descriptors the orchestrator is run on
OrchDescriptors == {WithNodes(GenParams(1, 1, 2), ns) : ns \in Rosters(MaxOrchNodes)}

OrchInit ==
    /\ epc = "load"
    /\ Global = ZeroConfig
    /\ \/ file \in {Absent, Garbage} /\ stored = NotStored
       \/ \E d \in OrchDescriptors : file = JsonFile(MarshalConfig(d)) /\ stored = StoredFrom(d)
    /\ err = "nil" /\ before = ZeroConfig /\ cpc = "idle"
    /\ mineFlag \in BOOLEAN
    /\ todo = {} /\ cur = NoAddr /\ peerIdx = 0
    /\ stacks = {} /\ eths = {} /\ started = {} /\ mining = {}
    /\ calls = EmptyBag /\ failed = FALSE
    /\ TaskIdle
    /\ BenchIdle
    /\ GenIdle
    /\ idArg = <<>> /\ ranging = {} /\ result = NoResult

OrchNext == EmuLoad \/ EmuMake \/ EmuStart \/ EmuWireNode \/ EmuAddPeer \/ EmuSpawn

SpecOrch == OrchInit /\ [][OrchNext]_vars

\* C7: orchestration is two-pass: when an AddPeer call has been made, every
\* node of the roster has been created, recorded in both handle maps and
\* started.
C7_TwoPass ==
    calls # EmptyBag =>
        /\ stacks = RosterAddrs
        /\ eths = RosterAddrs
        /\ started = RosterAddrs

\* the first AddPeer calls of a three-node roster have been made
C7_Witness ==
    /\ epc = "wire_peer" /\ calls # EmptyBag
    /\ Cardinality(RosterAddrs) = 3
    /\ started = RosterAddrs

\* how often address b occurs in the peer list of node a
Occurrences(a, b) == Cardinality({n \in 1..Len(NodeAt(a).Peers) : NodeAt(a).Peers[n] = b})

\* C8: the orchestrator wires exactly the generated edges: once the second
\* pass is over AddPeer(B) has been called on A's server once per occurrence
\* of B's address in A.Peers, for all roster nodes A and B, and on nothing
\* else; before that it has never been called more often than that.
C8_ExactEdges ==
    /\ \A e \in BagToSet(calls) :
          /\ e[1] \in RosterAddrs /\ e[2] \in RosterAddrs
          /\ CopiesIn(e, calls) <= Occurrences(e[1], e[2])
    /\ epc \in {"spawn", "wait"} =>
          \A a, b \in RosterAddrs : CopiesIn(<<a, b>>, calls) = Occurrences(a, b)

\* the second pass is over for a roster with a node of two peers and a
\* pair of nodes that are not peers
C8_Witness ==
    /\ epc = "spawn"
    /\ \E a \in RosterAddrs : Len(NodeAt(a).Peers) = 2
    /\ \E a, b \in RosterAddrs : a # b /\ Occurrences(a, b) = 0 /\ CopiesIn(<<a, b>>, calls) = 0
    /\ \E a, b \in RosterAddrs : CopiesIn(<<a, b>>, calls) = 1

\* C9: a partial topology never runs: once creating or starting a roster
\* node has failed the run is aborted, no AddPeer call has been made and
\* neither workload goroutine has been launched.
C9_NoPartialTopology ==
    failed =>
        /\ epc = "fatal"
        /\ calls = EmptyBag
        /\ tpc = "none" /\ spc = "none"

\* the second node of a roster failed after the first was started
C9_Witness ==
    /\ failed /\ epc = "fatal"
    /\ started # {} /\ stacks # RosterAddrs

(***************************************************************************)
(* ethemu, the continuous workload (main.go:222-283): the transaction      *)
(* goroutine, the sealing goroutine and the wait for the nodes.            *)
(***************************************************************************)
\* the process runs: it has not returned from main, exited or panicked
Alive == epc \notin {"returned", "fatal", "panic", "exited"}

orchFrame == <<mineFlag, todo, cur, peerIdx, stacks, eths, started, mining, calls, failed>>

TxAddrsMutant == {NodeAt(a).Address : a \in RosterAddrs}

\* lines 226-230: the addresses of the nodes with !node.IsMiner
TxAddrs == {NodeAt(a).Address : a \in {b \in RosterAddrs : ~NodeAt(b).IsMiner}}

\* lines 223-230: make with capacity len(Nodes)-1 panics for an empty
\* roster; otherwise addrs is filled
TxInit ==
    /\ Alive /\ tpc = "init"
    /\ IF Cardinality(RosterAddrs) - 1 < 0
         THEN epc' = "panic" /\ UNCHANGED <<tpc, addrs>>
         ELSE addrs' = TxAddrs /\ tpc' = "pick_from" /\ epc' = epc
    /\ UNCHANGED <<Global, spc, stopSig, stopped, from, to, delay, sent, sealers, sealer,
                   worked, timers, owed, orchFrame, outsideOrch>>

\* lines 232-233: from := addrs[rand.Intn(len(addrs))]; to := from.
\* rand.Intn(0) panics
TxPickFrom ==
    /\ Alive /\ tpc = "pick_from"
    /\ IF addrs = {}
         THEN epc' = "panic" /\ UNCHANGED <<tpc, from, to>>
         ELSE /\ from' \in addrs
              /\ to' = from'
              /\ tpc' = "pick_to"
              /\ epc' = epc
    /\ UNCHANGED <<Global, spc, stopSig, stopped, addrs, delay, sent, sealers, sealer,
                   worked, timers, owed, orchFrame, outsideOrch>>

\* lines 234-236: for from == to { to = addrs[rand.Intn(len(addrs))] }
TxPickTo ==
    /\ Alive /\ tpc = "pick_to"
    /\ IF from = to
         THEN to' \in addrs /\ tpc' = tpc
         ELSE to' = to /\ tpc' = "timer"
    /\ UNCHANGED <<Global, epc, spc, stopSig, stopped, addrs, from, delay, sent, sealers,
                   sealer, worked, timers, owed, orchFrame, outsideOrch>>

\* line 238: the argument of rand.Intn, int(sleepMax-sleepMin); for
\* intervals below 2^63 the conversion of the uint64 difference is the
\* signed difference
IntnArg == Global.MaxTxInterval - Global.MinTxInterval

\* a timer set to a draw added to sleepMax instead of sleepMin
TxTimerMutant ==
    /\ Alive /\ tpc = "timer"
    /\ IF IntnArg <= 0
         THEN epc' = "panic" /\ UNCHANGED <<tpc, delay, timers>>
         ELSE /\ \E r \in 0..(IntnArg - 1) : delay' = r + Global.MaxTxInterval
              /\ timers' = [timers EXCEPT !.tx = "armed"]
              /\ tpc' = "select"
              /\ epc' = epc
    /\ UNCHANGED <<Global, spc, stopSig, stopped, addrs, from, to, sent, sealers, sealer,
                   worked, owed, orchFrame, outsideOrch>>

\* line 238: rand.Intn(int(sleepMax-sleepMin)) + int(sleepMin) ms;
\* rand.Intn panics for an argument <= 0
TxTimer ==
    /\ Alive /\ tpc = "timer"
    /\ IF IntnArg <= 0
         THEN epc' = "panic" /\ UNCHANGED <<tpc, delay, timers>>
         ELSE /\ \E r \in 0..(IntnArg - 1) : delay' = r + Global.MinTxInterval
              /\ timers' = [timers EXCEPT !.tx = "armed"]
              /\ tpc' = "select"
              /\ epc' = epc
    /\ UNCHANGED <<Global, spc, stopSig, stopped, addrs, from, to, sent, sealers, sealer,
                   worked, owed, orchFrame, outsideOrch>>

\* the runtime delivers the expiry of an armed timer on its channel
TimerExpires ==
    /\ Alive
    /\ \E t \in {"tx", "seal"} :
         /\ timers[t] = "armed"
         /\ timers' = [timers EXCEPT ![t] = "expired"]
         /\ owed' = [owed EXCEPT ![t] = @ + 1]
    /\ UNCHANGED <<Global, epc, tpc, spc, stopSig, stopped, addrs, from, to, delay, sent,
                   sealers, sealer, worked, orchFrame, outsideOrch>>

\* a select whose timer case is ready before the timer has expired
ReadyCasesMutant(t) == {"timer"} \cup (IF stopSig = "closed" THEN {"stop"} ELSE {})

\* the cases of task t's select that can be taken: the timer case once the
\* timer has expired, the stop case once the channel is closed
ReadyCases(t) ==
    (IF timers[t] = "expired" THEN {"timer"} ELSE {}) \cup
    (IF stopSig = "closed" THEN {"stop"} ELSE {})

\* lines 239-244: return on stopSig, or eths[from].SendTransaction(...)
\* whose result is dropped
TxSelect ==
    /\ Alive /\ tpc = "select"
    /\ \E c \in ReadyCases("tx") :
         IF c = "stop"
           THEN tpc' = "returned" /\ UNCHANGED <<sent, timers, owed>>
           ELSE /\ sent' \in {"ok", "error"}
                /\ timers' = [timers EXCEPT !.tx = "none"]
                /\ owed' = [owed EXCEPT !.tx = @ - 1]
                /\ tpc' = "pick_from"
    /\ UNCHANGED <<Global, epc, spc, stopSig, stopped, addrs, from, to, delay, sealers,
                   sealer, worked, orchFrame, outsideOrch>>

\* lines 249-254: the backends of the nodes with node.IsMiner
SealInit ==
    /\ Alive /\ spc = "init"
    /\ sealers' = {a \in RosterAddrs : NodeAt(a).IsMiner}
    /\ spc' = "pick"
    /\ UNCHANGED <<Global, epc, tpc, stopSig, stopped, addrs, from, to, delay, sent, sealer,
                   worked, timers, owed, orchFrame, outsideOrch>>

\* lines 256-261: sealer := sealers[rand.Intn(len(sealers))] (rand.Intn(0)
\* panics); the goroutine returns when sealer.Etherbase() fails, and
\* otherwise creates the timer of one period
SealPick ==
    /\ Alive /\ spc = "pick"
    /\ IF sealers = {}
         THEN epc' = "panic" /\ UNCHANGED <<spc, sealer, timers>>
         ELSE /\ sealer' \in sealers
              /\ \/ spc' = "select" /\ timers' = [timers EXCEPT !.seal = "armed"]
                 \/ spc' = "returned" /\ timers' = timers
              /\ epc' = epc
    /\ UNCHANGED <<Global, tpc, stopSig, stopped, addrs, from, to, delay, sent, sealers,
                   worked, owed, orchFrame, outsideOrch>>

\* lines 261-275: return on stopSig, or sealer.Miner().Work() after one
\* period (the goroutine launched at line 268 only prints)
SealSelect ==
    /\ Alive /\ spc = "select"
    /\ \E c \in ReadyCases("seal") :
         IF c = "stop"
           THEN spc' = "returned" /\ UNCHANGED <<worked, timers, owed>>
           ELSE /\ worked' = TRUE
                /\ timers' = [timers EXCEPT !.seal = "none"]
                /\ owed' = [owed EXCEPT !.seal = @ - 1]
                /\ spc' = "pick"
    /\ UNCHANGED <<Global, epc, tpc, stopSig, stopped, addrs, from, to, delay, sent,
                   sealers, sealer, orchFrame, outsideOrch>>

\* a node instance shuts down (interrupt, Close), from outside the harness
NodeStops ==
    /\ Alive
    /\ \E a \in started \ stopped : stopped' = stopped \cup {a}
    /\ UNCHANGED <<Global, epc, tpc, spc, stopSig, addrs, from, to, delay, sent, sealers,
                   sealer, worked, timers, owed, orchFrame, outsideOrch>>

\* the wait loop left after the first node whose Wait returns
EmuWaitMutant ==
    /\ epc = "wait"
    /\ stacks \cap stopped # {}
    /\ epc' = "returned"
    /\ UNCHANGED <<Global, tpc, spc, stopSig, stopped, addrs, from, to, delay, sent, sealers,
                   sealer, worked, timers, owed, orchFrame, outsideOrch>>

\* lines 279-282: node.Wait() has returned for every node of the map;
\* ethemu returns nil and the process exits
EmuWait ==
    /\ epc = "wait"
    /\ stacks \subseteq stopped
    /\ epc' = "returned"
    /\ UNCHANGED <<Global, tpc, spc, stopSig, stopped, addrs, from, to, delay, sent, sealers,
                   sealer, worked, timers, owed, orchFrame, outsideOrch>>

\* the rosters without edges: the tasks do not read peer lists
WorkRosters ==
    UNION {{Roster(num, ms, {}) : ms \in SUBSET (0..(num - 1))} : num \in 1..MaxWorkNodes}

\* the descriptors the workload runs on, for --mintx 300 and 900 with
\* --maxtx 1000 (900 makes MinTxInterval = MaxTxInterval)
WorkDescriptors ==
    {WithNodes(GenParams(p, minTx, 1000), ns) :
        p \in 1..MaxPeriod, minTx \in {300, 900}, ns \in WorkRosters}

\* the state in which the go statements leave ethemu (the descriptor
\* loaded, every node created and started, every edge wired), or the empty
\* Global of a run whose LoadConfig failed
WorkInit ==
    /\ epc = "wait"
    /\ \/ /\ Global \in WorkDescriptors
          /\ file = JsonFile(MarshalConfig(Global))
          /\ stored = StoredFrom(Global)
       \/ /\ Global = ZeroConfig
          /\ file = Absent
          /\ stored = NotStored
    /\ err = "nil" /\ before = ZeroConfig /\ cpc = "idle"
    /\ mineFlag = FALSE
    /\ todo = {} /\ cur = NoAddr /\ peerIdx = 0
    /\ stacks = RosterAddrs /\ eths = RosterAddrs /\ started = RosterAddrs
    /\ mining = {a \in RosterAddrs : MiningWanted(a)}
    /\ calls = EmptyBag /\ failed = FALSE
    /\ tpc = "init" /\ spc = "init" /\ stopSig = "open" /\ stopped = {}
    /\ addrs = {} /\ from = NoAddr /\ to = NoAddr /\ delay = 0 /\ sent = "none"
    /\ sealers = {} /\ sealer = NoAddr /\ worked = FALSE
    /\ timers = [tx |-> "none", seal |-> "none"] /\ owed = [tx |-> 0, seal |-> 0]
    /\ BenchIdle
    /\ GenIdle
    /\ idArg = <<>> /\ ranging = {} /\ result = NoResult

WorkNext ==
    \/ TxInit \/ TxPickFrom \/ TxPickTo \/ TxTimer \/ TxSelect
    \/ SealInit \/ SealPick \/ SealSelect
    \/ TimerExpires
    \/ NodeStops \/ EmuWait

SpecWork == WorkInit /\ [][WorkNext]_vars

\* C10: every transaction the continuous transaction task submits has
\* from # to, and from and to are addresses of roster nodes with
\* IsMiner = false.  (SendTransaction has just been called with from and to
\* exactly in the states where the task is back at the head of its loop
\* with a result recorded.)
C10_NonMinerTransfers ==
    (tpc = "pick_from" /\ sent # "none") =>
        /\ from # to
        /\ \A x \in {from, to} :
              \E a \in RosterAddrs : NodeAt(a).Address = x /\ ~NodeAt(a).IsMiner

\* a transaction was submitted in a run with a miner and two other nodes
C10_Witness ==
    /\ tpc = "pick_from" /\ sent = "ok"
    /\ from # to
    /\ Cardinality(RosterAddrs) = 3
    /\ \E a \in RosterAddrs : NodeAt(a).IsMiner

\* C11: when the roster has fewer than two non-miner addresses the
\* transaction task is never inside the loop that redraws the destination
\* until it differs from the source (a configuration error has ended the
\* run before): with a single candidate that loop cannot end.
C11_NoResampleLoop ==
    Cardinality(TxAddrs) < 2 => tpc # "pick_to"

\* C12: when no roster node is a miner, no transaction is ever submitted
\* and the sealing task never begins an iteration of its loop (the run has
\* ended with a configuration error before the tasks started).
C12_ZeroMinersFailFast ==
    (\A a \in RosterAddrs : ~NodeAt(a).IsMiner) =>
        /\ sent = "none"
        /\ spc \notin {"pick", "select"}

\* C13: when ethemu returns after every node's Wait has returned, stopSig
\* is closed and the transaction task and the sealing task have returned.
C13_OrdinaryShutdown ==
    epc = "returned" =>
        /\ stopSig = "closed"
        /\ tpc = "returned"
        /\ spc = "returned"

(***************************************************************************)
(* The benchmark ethemu (main.go:518-650): the two log files, the nodes,   *)
(* and the go statement of the strategy the transaction-mode flag selects. *)
(***************************************************************************)
\* what no step of the benchmark ethemu changes
outsideBench == <<genVars, cfgVars, mineFlag, todo, cur, peerIdx, tpc, spc, stopSig, delay,
                  sent, sealers, worked, timers, owed, txMode, idArg, ranging, result>>

\* the locals of the transaction-count goroutine and the pools it reads
countVars == <<xpc, xIdx, xCounter, txNum, hash, inPool, mined, submitted, addrs, from, to>>

\* the locals of the block-height goroutine and the chains it reads
heightVars == <<hpc, hIdx, hCounter, curHeight, heights, sealing, seals, observed, sealer>>

\* what ethemu's own goroutine sets up
bootVars == <<stacks, eths, started, mining, calls, failed>>

\* lines 526-530: block.csv is opened; on an error ethemu returns it
BenchOpenBlockLog ==
    /\ epc = "open_block"
    /\ \/ blockLog' = "open" /\ epc' = "open_tx" /\ failed' = failed
       \/ blockLog' = blockLog /\ epc' = "returned" /\ failed' = TRUE
    /\ UNCHANGED <<txLog, stacks, eths, started, mining, calls, bsealers, stopped,
                   countVars, heightVars, rested, outsideBench>>

\* lines 531-535: txs.csv is opened; on an error ethemu returns it and the
\* deferred blockLog.Close() runs
BenchOpenTxLog ==
    /\ epc = "open_tx"
    /\ \/ txLog' = "open" /\ epc' = "boot" /\ UNCHANGED <<blockLog, failed>>
       \/ txLog' = txLog /\ epc' = "returned" /\ blockLog' = "closed" /\ failed' = TRUE
    /\ UNCHANGED <<stacks, eths, started, mining, calls, bsealers, stopped,
                   countVars, heightVars, rested, outsideBench>>

\* lines 547-551: one AddPeer call per entry of every node's peer list
BenchEdges ==
    UNION {{<<a, NodeAt(a).Peers[n]>> : n \in 1..Len(NodeAt(a).Peers)} : a \in RosterAddrs}

\* the chain of every node starts at the genesis block
GenesisHeights == [a \in RosterAddrs |-> 0]

\* lines 536-551: every roster node is created and started (startNode of
\* this version starts mining on every node) and every edge is wired; a
\* node that cannot be created or started ends the process (utils.Fatalf)
BenchBoot ==
    /\ epc = "boot"
    /\ \/ /\ stacks' = RosterAddrs /\ eths' = RosterAddrs
          /\ started' = RosterAddrs /\ mining' = RosterAddrs
          /\ calls' = SetToBag(BenchEdges)
          /\ heights' = GenesisHeights
          /\ epc' = "launch"
          /\ failed' = failed
       \/ /\ RosterAddrs # {}
          /\ epc' = "fatal"
          /\ failed' = TRUE
          /\ UNCHANGED <<stacks, eths, started, mining, calls, heights>>
    /\ UNCHANGED <<blockLog, txLog, bsealers, stopped, countVars,
                   hpc, hIdx, hCounter, curHeight, sealing, seals, observed, rested, sealer,
                   outsideBench>>

\* line 553: if ctx.Bool(utils.TxModeFlag.Name)
TxModeCond == txMode

HeightModeCondMutant == TRUE

\* line 601: if !ctx.Bool(utils.TxModeFlag.Name)
HeightModeCond == ~txMode

\* lines 553-641: the two if statements with their go statements
BenchSpawn ==
    /\ epc = "launch"
    /\ xpc' = IF TxModeCond THEN "init" ELSE xpc
    /\ hpc' = IF HeightModeCond THEN "init" ELSE hpc
    /\ epc' = "wait"
    /\ UNCHANGED <<blockLog, txLog, bootVars, bsealers, stopped,
                   xIdx, xCounter, txNum, hash, inPool, mined, submitted, addrs, from, to,
                   hIdx, hCounter, curHeight, heights, sealing, seals, observed, rested, sealer,
                   outsideBench>>

\* a node instance of the benchmark shuts down, from outside the harness
BenchNodeStops ==
    /\ Alive
    /\ \E a \in started \ stopped : stopped' = stopped \cup {a}
    /\ UNCHANGED <<epc, blockLog, txLog, bootVars, bsealers, countVars, heightVars, rested,
                   outsideBench>>

\* lines 643-646: node.Wait() has returned for every node; ethemu returns
\* nil (the deferred Close calls run) and the process exits
BenchWait ==
    /\ epc = "wait"
    /\ stacks \subseteq stopped
    /\ epc' = "returned"
    /\ blockLog' = "closed" /\ txLog' = "closed"
    /\ UNCHANGED <<bootVars, bsealers, stopped, countVars, heightVars, rested, outsideBench>>

\* the benchmark is started on a generated descriptor, or on the empty
\* Global of a run whose LoadConfig failed
LaunchInit ==
    /\ epc = "open_block"
    /\ \/ /\ Global \in OrchDescriptors
          /\ file = JsonFile(MarshalConfig(Global))
          /\ stored = StoredFrom(Global)
       \/ /\ Global = ZeroConfig
          /\ file = Absent
          /\ stored = NotStored
    /\ err = "nil" /\ before = ZeroConfig /\ cpc = "idle"
    /\ mineFlag = FALSE
    /\ todo = {} /\ cur = NoAddr /\ peerIdx = 0
    /\ stacks = {} /\ eths = {} /\ started = {} /\ mining = {}
    /\ calls = EmptyBag /\ failed = FALSE
    /\ TaskIdle
    /\ txMode \in BOOLEAN
    /\ blockLog = "none" /\ txLog = "none"
    /\ xpc = "none" /\ hpc = "none" /\ bsealers = <<>>
    /\ xIdx = 0 /\ xCounter = 0 /\ txNum = 0 /\ hash = "none"
    /\ inPool = {} /\ mined = {} /\ submitted = 0
    /\ hIdx = 0 /\ hCounter = 0 /\ curHeight = 0 /\ heights = NoTable
    /\ sealing = NoAddr /\ seals = 0 /\ observed = {} /\ rested = TRUE
    /\ GenIdle
    /\ idArg = <<>> /\ ranging = {} /\ result = NoResult

LaunchNext ==
    \/ BenchOpenBlockLog \/ BenchOpenTxLog \/ BenchBoot \/ BenchSpawn
    \/ BenchNodeStops \/ BenchWait

SpecLaunch == LaunchInit /\ [][LaunchNext]_vars

\* C19: the benchmark ethemu never has both the transaction-count
\* goroutine and the block-height goroutine launched; once it has passed
\* its go statements exactly one of them is launched, the transaction-count
\* goroutine exactly when the transaction-mode flag is set.
C19_OneStrategy ==
    /\ ~(xpc # "none" /\ hpc # "none")
    /\ (epc = "wait" \/ (epc = "returned" /\ ~failed)) =>
          /\ (xpc # "none") = txMode
          /\ (hpc # "none") = ~txMode

\* ethemu waits for its nodes with the transaction-count goroutine
\* launched and no block-height goroutine
C19_Witness ==
    /\ epc = "wait" /\ txMode
    /\ xpc = "init" /\ hpc = "none"
    /\ Cardinality(started) = 2

(***************************************************************************)
(* The block-height goroutine of the benchmark (main.go:601-641) and the   *)
(* chains of the nodes it polls.                                           *)
(***************************************************************************)
\* line 635: if curHeight >= 110
HeightTarget == 110

\* the orders in which a range over a Go map can yield the keys S
Perms(S) == {f \in [1..Cardinality(S) -> S] : \A x \in S : \E k \in 1..Cardinality(S) : f[k] = x}

\* lines 603-607: sealers holds the backend of every roster node, in the
\* order the range over Global.Nodes yields them; curHeight := 0
HInit ==
    /\ Alive /\ hpc = "init"
    /\ bsealers' \in Perms(RosterAddrs)
    /\ curHeight' = 0
    /\ hIdx' = 1 /\ hCounter' = 0
    /\ hpc' = "poll"
    /\ UNCHANGED <<epc, blockLog, txLog, bootVars, stopped, countVars,
                   heights, sealing, seals, observed, rested, sealer, outsideBench>>

\* lines 611-615: one iteration of the range over sealers
HPoll ==
    /\ Alive /\ hpc = "poll"
    /\ hIdx <= Len(bsealers)
    /\ hCounter' = IF heights[bsealers[hIdx]] # curHeight THEN hCounter + 1 ELSE hCounter
    /\ observed' = IF heights[bsealers[hIdx]] = curHeight
                     THEN observed \cup {bsealers[hIdx]} ELSE observed
    /\ hIdx' = hIdx + 1
    /\ rested' = FALSE
    /\ UNCHANGED <<epc, blockLog, txLog, bootVars, bsealers, stopped, countVars,
                   hpc, curHeight, heights, sealing, seals, sealer, outsideBench>>

HConvergedMutant(c) == TRUE

\* line 616: if counter == 0 { break }
HConverged(c) == c = 0

\* lines 609-618: the end of a pass over sealers: leave the poll loop, or
\* start the next pass with counter := 0
HCheck ==
    /\ Alive /\ hpc = "poll"
    /\ hIdx > Len(bsealers)
    /\ IF HConverged(hCounter)
         THEN hpc' = "pick" /\ UNCHANGED <<hIdx, hCounter, observed>>
         ELSE hpc' = hpc /\ observed' = {} /\ hIdx' = 1 /\ hCounter' = 0
    /\ UNCHANGED <<epc, blockLog, txLog, bootVars, bsealers, stopped, countVars,
                   curHeight, heights, sealing, seals, sealer, rested, outsideBench>>

\* lines 620-625: after the sleep, sealer := sealers[rand.Intn(len(sealers))]
\* (rand.Intn(0) panics); the goroutine returns when Etherbase() fails
HPick ==
    /\ Alive /\ hpc = "pick"
    /\ IF Len(bsealers) = 0
         THEN epc' = "panic" /\ UNCHANGED <<hpc, sealer, rested>>
         ELSE /\ \E k \in 1..Len(bsealers) : sealer' = bsealers[k]
              /\ hpc' \in {"seal", "returned"}
              /\ epc' = epc
              /\ rested' = TRUE
    /\ UNCHANGED <<blockLog, txLog, bootVars, bsealers, stopped, countVars,
                   hIdx, hCounter, curHeight, heights, sealing, seals, observed,
                   outsideBench>>

\* a driver that goes on sealing at the target height
HSealMutant ==
    /\ Alive /\ hpc = "seal"
    /\ IF stopSig = "closed"
         THEN /\ hpc' = "returned"
              /\ UNCHANGED <<epc, blockLog, hIdx, hCounter, curHeight, sealing, seals,
                             observed>>
         ELSE /\ sealing' = sealer
              /\ seals' = seals + 1
              /\ observed' = {}
              /\ curHeight' = curHeight + 1
              /\ IF curHeight' > HeightTarget
                   THEN /\ blockLog' = "synced" /\ epc' = "exited"
                        /\ UNCHANGED <<hpc, hIdx, hCounter>>
                   ELSE /\ hpc' = "poll" /\ hIdx' = 1 /\ hCounter' = 0
                        /\ UNCHANGED <<epc, blockLog>>
    /\ UNCHANGED <<txLog, bootVars, bsealers, stopped, countVars, heights, sealer, rested,
                   outsideBench>>

\* lines 626-640: return when stopSig is closed; otherwise
\* sealer.Miner().Work(), curHeight++, and at the target height
\* blockLog.Sync() and os.Exit(0)
HSeal ==
    /\ Alive /\ hpc = "seal"
    /\ IF stopSig = "closed"
         THEN /\ hpc' = "returned"
              /\ UNCHANGED <<epc, blockLog, hIdx, hCounter, curHeight, sealing, seals,
                             observed>>
         ELSE /\ sealing' = sealer
              /\ seals' = seals + 1
              /\ observed' = {}
              /\ curHeight' = curHeight + 1
              /\ IF curHeight' >= HeightTarget
                   THEN /\ blockLog' = "synced" /\ epc' = "exited"
                        /\ UNCHANGED <<hpc, hIdx, hCounter>>
                   ELSE /\ hpc' = "poll" /\ hIdx' = 1 /\ hCounter' = 0
                        /\ UNCHANGED <<epc, blockLog>>
    /\ UNCHANGED <<txLog, bootVars, bsealers, stopped, countVars, heights, sealer, rested,
                   outsideBench>>

\* the node Miner().Work() was called on seals the next block of its chain
BlockSealed ==
    /\ Alive /\ sealing # NoAddr
    /\ heights' = [heights EXCEPT ![sealing] = @ + 1]
    /\ sealing' = NoAddr
    /\ UNCHANGED <<epc, blockLog, txLog, bootVars, bsealers, stopped, countVars,
                   hpc, hIdx, hCounter, curHeight, seals, observed, rested, sealer, outsideBench>>

\* a node imports the next block of a longer chain of some other node
BlockImported ==
    /\ Alive
    /\ \E a \in RosterAddrs :
         /\ \E b \in RosterAddrs : heights[b] > heights[a]
         /\ heights' = [heights EXCEPT ![a] = @ + 1]
    /\ UNCHANGED <<epc, blockLog, txLog, bootVars, bsealers, stopped, countVars,
                   hpc, hIdx, hCounter, curHeight, sealing, seals, observed, rested, sealer,
                   outsideBench>>

\* the rosters the benchmark drivers run on (they read neither IsMiner nor
\* the peer lists)
BenchDescriptors ==
    {WithNodes(GenParams(1, 1, 2), Roster(num, {}, {})) : num \in 1..MaxBenchNodes}

\* the state in which the go statements leave the benchmark ethemu
BenchLaunched ==
    /\ epc = "wait"
    /\ \/ /\ Global \in BenchDescriptors
          /\ file = JsonFile(MarshalConfig(Global))
          /\ stored = StoredFrom(Global)
       \/ /\ Global = ZeroConfig
          /\ file = Absent
          /\ stored = NotStored
    /\ err = "nil" /\ before = ZeroConfig /\ cpc = "idle"
    /\ mineFlag = FALSE
    /\ todo = {} /\ cur = NoAddr /\ peerIdx = 0
    /\ stacks = RosterAddrs /\ eths = RosterAddrs
    /\ started = RosterAddrs /\ mining = RosterAddrs
    /\ calls = SetToBag(BenchEdges) /\ failed = FALSE
    /\ TaskIdle
    /\ blockLog = "open" /\ txLog = "open"
    /\ xpc = (IF TxModeCond THEN "init" ELSE "none")
    /\ hpc = (IF HeightModeCond THEN "init" ELSE "none")
    /\ bsealers = <<>>
    /\ xIdx = 0 /\ xCounter = 0 /\ txNum = 0 /\ hash = "none"
    /\ inPool = {} /\ mined = {} /\ submitted = 0
    /\ hIdx = 0 /\ hCounter = 0 /\ curHeight = 0 /\ heights = GenesisHeights
    /\ sealing = NoAddr /\ seals = 0 /\ observed = {} /\ rested = TRUE
    /\ GenIdle
    /\ idArg = <<>> /\ ranging = {} /\ result = NoResult

HeightInit == txMode = FALSE /\ BenchLaunched

HeightDriverNext == HInit \/ HPoll \/ HCheck \/ HPick \/ HSeal

HeightNext ==
    \/ HeightDriverNext
    \/ BlockSealed \/ BlockImported
    \/ BenchNodeStops \/ BenchWait

SpecHeight == HeightInit /\ [][HeightNext]_vars

\* the runtime schedules the driver and ethemu's own goroutine; nothing
\* obliges a node to seal or import a block
FairSpecHeight == SpecHeight /\ WF_vars(HeightDriverNext) /\ WF_vars(BenchWait)

\* C17: when the block-height driver ends the process, the chain of every
\* roster node is at the target height.
C17_FinalHeights ==
    (epc = "exited" /\ ~txMode) => \A a \in RosterAddrs : heights[a] = HeightTarget

\* C18: every Miner().Work() call of the block-height driver is made after
\* a poll pass that read every roster node at the expected height
\* curHeight, with no other call since that pass began, and curHeight then
\* equals the number of calls made before.
C18_SealBarrier ==
    [][seals' # seals =>
          /\ observed = RosterAddrs
          /\ curHeight = seals]_vars

\* two seals were triggered on a roster of two nodes, both at height 2
C18_Witness ==
    /\ seals = 2 /\ curHeight = 2
    /\ Cardinality(RosterAddrs) = 2
    /\ \A a \in RosterAddrs : heights[a] = 2
    /\ hpc = "pick"

\* C20: a benchmark barrier that is being polled is eventually left: the
\* poll converges, or the process is ended (by the fatal error of the
\* convergence timeout; any other end of the process is accepted here too).
C20_BarrierEnds ==
    (Alive /\ (hpc = "poll" \/ xpc = "poll")) ~> ((hpc # "poll" /\ xpc # "poll") \/ ~Alive)

(***************************************************************************)
(* The transaction-count goroutine of the benchmark (main.go:553-599) and  *)
(* the transaction pools it polls.                                         *)
(***************************************************************************)
\* line 592: if txNum >= 5050
TxTarget == 5050

\* lines 555-563: sealers holds the backend of every roster node, addrs
\* every roster address (make with capacity len(Nodes)-1 panics for an
\* empty roster); txNum := 0
XInit ==
    /\ Alive /\ xpc = "init"
    /\ bsealers' \in Perms(RosterAddrs)
    /\ IF Cardinality(RosterAddrs) - 1 < 0
         THEN epc' = "panic" /\ UNCHANGED <<xpc, addrs, txNum>>
         ELSE /\ addrs' = {NodeAt(a).Address : a \in RosterAddrs}
              /\ txNum' = 0
              /\ xpc' = "from"
              /\ epc' = epc
    /\ UNCHANGED <<blockLog, txLog, bootVars, stopped, xIdx, xCounter, hash, inPool, mined,
                   submitted, from, to, heightVars, rested, outsideBench>>

\* lines 565-566: from := addrs[rand.Intn(len(addrs))]; to := from
XPickFrom ==
    /\ Alive /\ xpc = "from"
    /\ from' \in addrs
    /\ to' = from'
    /\ xpc' = "to"
    /\ UNCHANGED <<epc, blockLog, txLog, bootVars, bsealers, stopped, xIdx, xCounter, txNum,
                   hash, inPool, mined, submitted, addrs, heightVars, rested, outsideBench>>

\* lines 567-569: for from == to { to = addrs[rand.Intn(len(addrs))] }
XPickTo ==
    /\ Alive /\ xpc = "to"
    /\ IF from = to
         THEN to' \in addrs /\ xpc' = xpc
         ELSE to' = to /\ xpc' = "send"
    /\ UNCHANGED <<epc, blockLog, txLog, bootVars, bsealers, stopped, xIdx, xCounter, txNum,
                   hash, inPool, mined, submitted, addrs, from, heightVars, rested, outsideBench>>

\* lines 570-578: return when stopSig is closed; otherwise
\* hash, _ = eths[from].SendTransaction(...): the transaction enters the
\* pool of the node of from, or the call fails and hash is the zero hash.
\* Then the first poll pass begins with counter := 0
XSend ==
    /\ Alive /\ xpc = "send"
    /\ submitted < MaxSubmitted
    /\ IF stopSig = "closed"
         THEN /\ xpc' = "returned"
              /\ UNCHANGED <<hash, inPool, mined, submitted, xIdx, xCounter>>
         ELSE /\ \/ hash' = "tx" /\ inPool' = {from}
                 \/ hash' = "zero" /\ inPool' = {}
              /\ mined' = {}
              /\ submitted' = submitted + 1
              /\ xpc' = "poll" /\ xIdx' = 1 /\ xCounter' = 0
    /\ UNCHANGED <<epc, blockLog, txLog, bootVars, bsealers, stopped, txNum, addrs, from, to,
                   heightVars, rested, outsideBench>>

\* TxPool().Get(hash): the transaction, or nil when the pool does not hold
\* the hash
PoolGet(a) == IF hash = "tx" /\ a \in inPool THEN "tx" ELSE "nil"

\* lines 581-586: one iteration of the range over sealers
XPoll ==
    /\ Alive /\ xpc = "poll"
    /\ xIdx <= Len(bsealers)
    /\ xCounter' = IF PoolGet(bsealers[xIdx]) = "nil" THEN xCounter + 1 ELSE xCounter
    /\ xIdx' = xIdx + 1
    /\ rested' = FALSE
    /\ UNCHANGED <<epc, blockLog, txLog, bootVars, bsealers, stopped, xpc, txNum, hash,
                   inPool, mined, submitted, addrs, from, to, heightVars, outsideBench>>

\* line 587: if counter == 0 { break }
XConverged(c) == c = 0

\* lines 579-596: the end of a pass over sealers: leave the poll loop, or
\* print txNum, txNum++, at the target txLog.Sync() and os.Exit(0), and
\* otherwise start the next pass with counter := 0
XCheck ==
    /\ Alive /\ xpc = "poll"
    /\ xIdx > Len(bsealers)
    /\ IF XConverged(xCounter)
         THEN xpc' = "from" /\ UNCHANGED <<epc, txLog, txNum, xIdx, xCounter>>
         ELSE /\ txNum' = txNum + 1
              /\ IF txNum' >= TxTarget
                   THEN txLog' = "synced" /\ epc' = "exited" /\ UNCHANGED <<xpc, xIdx, xCounter>>
                   ELSE xpc' = xpc /\ xIdx' = 1 /\ xCounter' = 0 /\ UNCHANGED <<epc, txLog>>
    /\ UNCHANGED <<blockLog, bootVars, bsealers, stopped, hash, inPool, mined, submitted,
                   addrs, from, to, heightVars, rested, outsideBench>>

\* the submitted transaction reaches the pool of another node
TxGossiped ==
    /\ Alive /\ hash = "tx"
    /\ \E a \in RosterAddrs \ (inPool \cup mined) : inPool' = inPool \cup {a}
    /\ UNCHANGED <<epc, blockLog, txLog, bootVars, bsealers, stopped, xpc, xIdx, xCounter,
                   txNum, hash, mined, submitted, addrs, from, to, heightVars, rested, outsideBench>>

\* a node's chain includes the submitted transaction: its pool drops it
TxIncluded ==
    /\ Alive /\ hash = "tx"
    /\ \E a \in RosterAddrs \ mined :
         /\ mined' = mined \cup {a}
         /\ inPool' = inPool \ {a}
    /\ UNCHANGED <<epc, blockLog, txLog, bootVars, bsealers, stopped, xpc, xIdx, xCounter,
                   txNum, hash, submitted, addrs, from, to, heightVars, rested, outsideBench>>

CountInit == txMode = TRUE /\ BenchLaunched

CountDriverNext == XInit \/ XPickFrom \/ XPickTo \/ XSend \/ XPoll \/ XCheck

CountNext ==
    \/ CountDriverNext
    \/ TxGossiped \/ TxIncluded
    \/ BenchWait

SpecCount == CountInit /\ [][CountNext]_vars

\* C15: when the transaction-count driver ends the process, TxTarget
\* transactions have been submitted.
C15_ExitAfterTarget ==
    (epc = "exited" /\ txMode) => submitted >= TxTarget

\* C16: the transaction-count driver submits a further transaction only
\* when its last poll pass found the previous transaction absent from the
\* pool of every roster node.
C16_SubmitAfterAbsent ==
    [][(submitted' # submitted /\ submitted > 0) => xCounter = Len(bsealers)]_vars

\* C21: a submission that failed is never counted: while hash is the zero
\* hash a failed SendTransaction left, the transaction-count driver does
\* not increment txNum (it goes on to submit a fresh transaction).
C21_FailedNotCounted ==
    [][hash = "zero" => txNum' = txNum]_vars

\* C22: ethemu has returned only if Wait has returned for every node of
\* the handle map, i.e. every node instance has shut down.
C22_ReturnAfterAllWaits ==
    epc = "returned" => stacks \subseteq stopped

\* ethemu returned in a run with three nodes, all shut down
C22_Witness ==
    /\ epc = "returned"
    /\ Cardinality(stacks) = 3
    /\ stopped = stacks

\* C23: the continuous sealing task has left its loop only if the stop
\* signal is closed.
C23_SealingNeverGivesUp ==
    spc = "returned" => stopSig = "closed"

(***************************************************************************)
(* generateConfig from the end of setPeers on (gencmd.go:55-62,            *)
(* main.go:1517-1524): Global is filled from the flags and the nodes and   *)
(* StoreConfig writes it.                                                  *)
(***************************************************************************)
\* gencmd.go:58-61: Global.Nodes, keyed by the address of each node
NodesByAddress ==
    MakeMap([a \in {nodes[k].Address : k \in DOMAIN nodes} |->
                nodes[CHOOSE k \in DOMAIN nodes : nodes[k].Address = a]])

\* gencmd.go:55-62: the parameters of the policy's generateConfig, the
\* nodes, and StoreConfig (whose write may fail)
GenStore ==
    /\ gpc = "peers_done"
    /\ \E p \in 1..MaxPeriod :
         Global' = WithNodes(IF policy = "bounded" THEN GenParams(p, p, p + 1)
                                                   ELSE NetParams(p, p + 1),
                             NodesByAddress)
    /\ before' = Global'
    /\ \/ /\ file' = JsonFile(MarshalConfig(Global'))
          /\ err' = "nil"
          /\ stored' = StoredFrom(Global')
       \/ /\ file' = file
          /\ err' = "EACCES"
          /\ stored' = stored
    /\ gpc' = "gen_done"
    /\ UNCHANGED <<policy, nodes, minersFlag, miners, minPeer, maxPeer, peerNum, peers, i, j,
                   iter, redrawn, refEdge, cpc, orchVars, taskVars, benchVars, idArg,
                   ranging, result>>

SpecGen == PeersInit /\ [][PeersNext \/ GenStore]_vars

\* C24: every descriptor generateConfig has stored holds at least two
\* nodes.
C24_AtLeastTwoNodes ==
    stored.isSome => Cardinality(DOMAIN stored.d.Nodes.m) >= 2

\* C25: in the continuous harness mining has been started on a node only
\* if the node's descriptor has IsMiner or the mining flag is set, and on
\* every started node of a live run for which one of the two holds.
C25_RoleSpecificStartup ==
    /\ \A a \in mining : NodeAt(a).IsMiner \/ mineFlag
    /\ epc # "fatal" =>
          \A a \in started : (NodeAt(a).IsMiner \/ mineFlag) => a \in mining

\* three nodes are started without the mining flag, one of them mining
C25_Witness ==
    /\ ~mineFlag
    /\ Cardinality(started) = 3
    /\ Cardinality(mining) = 1
    /\ epc = "wire"

\* C26: every Miner().Work() call of the continuous sealing task is made
\* on a roster node with IsMiner = true, and each call answers the expiry
\* of a timer of its own: the calls never outnumber the expiries and no
\* second timer expires before the call that answers the first.
C26_SealAfterTimer ==
    /\ worked => (sealer \in RosterAddrs /\ NodeAt(sealer).IsMiner)
    /\ owed.seal \in {0, 1}
    /\ owed.seal = 1 => (spc = "select" /\ timers.seal = "expired")

\* the timer of a second iteration has expired with two miners to pick from
C26_Witness ==
    /\ worked /\ spc = "select"
    /\ timers.seal = "expired" /\ owed.seal = 1
    /\ Cardinality(sealers) = 2

\* C27: with MinTxInterval < MaxTxInterval every delay the continuous
\* transaction task draws lies in [MinTxInterval, MaxTxInterval], and each
\* submission answers the expiry of a timer of its own: the submissions
\* never outnumber the expiries and no second timer expires before the
\* submission that answers the first.
C27_DelayInRange ==
    /\ (Global.MinTxInterval < Global.MaxTxInterval /\ (tpc = "select" \/ sent # "none")) =>
          (Global.MinTxInterval <= delay /\ delay <= Global.MaxTxInterval)
    /\ owed.tx \in {0, 1}
    /\ owed.tx = 1 => (tpc = "select" /\ timers.tx = "expired")

\* a transaction was submitted after a delay above the minimum
C27_Witness ==
    /\ tpc = "pick_from" /\ sent = "ok"
    /\ delay = Global.MinTxInterval + 1
    /\ owed.tx = 0 /\ timers.tx = "none"

(***************************************************************************)
(* A whole continuous run: ethemu from LoadConfig to the wait loop,        *)
(* together with the two goroutines it launches.                           *)
(***************************************************************************)
\* the descriptors of the whole runs, generated with --blocktime 1,
\* --mintx 300 and --maxtx 1000
RunDescriptors == {WithNodes(GenParams(1, 300, 1000), ns) : ns \in Rosters(MaxRunNodes)}

\* ethemu is started on a data directory without config.json, with an
\* unreadable one, or with a generated descriptor
RunInit ==
    /\ epc = "load"
    /\ Global = ZeroConfig
    /\ \/ file \in {Absent, Garbage} /\ stored = NotStored
       \/ \E d \in RunDescriptors : file = JsonFile(MarshalConfig(d)) /\ stored = StoredFrom(d)
    /\ err = "nil" /\ before = ZeroConfig /\ cpc = "idle"
    /\ mineFlag \in BOOLEAN
    /\ todo = {} /\ cur = NoAddr /\ peerIdx = 0
    /\ stacks = {} /\ eths = {} /\ started = {} /\ mining = {}
    /\ calls = EmptyBag /\ failed = FALSE
    /\ TaskIdle
    /\ BenchIdle
    /\ GenIdle
    /\ idArg = <<>> /\ ranging = {} /\ result = NoResult

SpecRun == RunInit /\ [][OrchNext \/ WorkNext]_vars

\* C29: once a workload goroutine has been launched, the key sets of the
\* handle maps nodes and eths are exactly the roster's addresses, and no
\* step adds or removes an entry from then on.
C29_HandleMapsFrozen ==
    /\ []((tpc # "none" \/ spc # "none") => (stacks = RosterAddrs /\ eths = RosterAddrs))
    /\ [][(tpc # "none" \/ spc # "none") => (stacks' = stacks /\ eths' = eths)]_vars

\* a transaction has been submitted in a run that created two nodes
C29_Witness ==
    /\ sent = "ok"
    /\ Cardinality(stacks) = 2 /\ eths = stacks
    /\ epc = "wait"

\* C30: under the density policy every pair (i, j) with i < j gets an edge
\* exactly when the reference rule connects it on the pair's draw, for
\* every node count, target degree and draw.
C30_DensityAgreesWithReference ==
    [][(gpc = "density_pair" /\ j' = j + 1 /\ i' = i) =>
          ((nodes' # nodes) <=> refEdge')]_vars

\* five nodes and target degree 2: the pairs at circular distance 1 are
\* connected on every draw and a pair at distance 2 was connected as well
C30_Witness ==
    /\ policy = "density" /\ gpc = "peers_done"
    /\ Len0(nodes) = 5 /\ peerNum = 2
    /\ 2 \in PeerIds(0)

\* a pass over sealers begins: the first of a barrier or the one after a
\* pass that did not converge
PassBegins ==
    \/ hpc' = "poll" /\ hIdx' = 1 /\ (hpc # "poll" \/ hIdx # 1)
    \/ xpc' = "poll" /\ xIdx' = 1 /\ (xpc # "poll" \/ xIdx # 1)

\* C31: a polling pass of a convergence barrier begins only when the driver
\* has slept since the last read of the previous pass: two passes never run
\* back to back.
C31_PollsRateBounded == [][PassBegins => rested]_vars

\* the flags admit a graph by the claim's test: N >= 2 and
\* minPeer <= maxPeer <= N - 1
Feasible ==
    /\ policy = "bounded"
    /\ Len0(nodes) >= 2
    /\ minPeer <= maxPeer /\ maxPeer <= Len0(nodes) - 1

\* node a still needs a peer and no draw can give it one: every other node
\* is already its neighbour or already has maxPeer peers
Starved(a) ==
    /\ Cardinality(peers[a]) < minPeer
    /\ \A b \in DOMAIN peers : b = a \/ b \in peers[a] \/ Cardinality(peers[b]) >= maxPeer

\* C32: with feasible degree bounds the degree-bounded setPeers never
\* reaches a state in which some node has fewer than minPeer peers while
\* every other node is its neighbour or has maxPeer peers (a state from
\* which no sequence of draws lets it return).
C32_NeverStarved == Feasible => \A a \in DOMAIN peers : ~Starved(a)

\* C33: in the degree-bounded setPeers with minPeer <= maxPeer no node has
\* more than maxPeer peers in any state, no step lowers a node's degree,
\* and when a pass over the nodes (the body of `for !check()`) completes,
\* check() holds, so that the body runs at most once.
C33_OnePassWithinBounds ==
    /\ []((policy = "bounded" /\ minPeer <= maxPeer) =>
             \A k \in DOMAIN peers : Cardinality(peers[k]) <= maxPeer)
    /\ [][(policy = "bounded" /\ minPeer <= maxPeer) =>
             /\ \A k \in DOMAIN peers : peers[k] \subseteq peers'[k]
             /\ (gpc = "peers_pass" /\ gpc' = "peers_check") => Check'
             /\ (gpc = "peers_check" /\ gpc' = "peers_pass") =>
                    \A k \in DOMAIN peers : peers[k] = {}]_vars

\* the one pass over 3 nodes has completed: it added edges, a node is at
\* maxPeer, and check() is about to be evaluated again
C33_Witness ==
    /\ policy = "bounded" /\ gpc = "peers_check"
    /\ Len0(nodes) = 3 /\ 1 <= minPeer /\ minPeer <= maxPeer
    /\ \E k \in DOMAIN peers : Cardinality(peers[k]) = maxPeer

\* C34: for every N >= 1 and 0 <= M <= N setMiners returns when its draws
\* are fair; in no state does the miner set hold more than M indices; and
\* for M = 0 it never draws and returns with no node flagged.
C34_MinersTerminates ==
    /\ <>(gpc = "miners_done")
    /\ [](Cardinality(miners) <= minersFlag)
    /\ [](minersFlag = 0 => (gpc # "miners_draw" /\ miners = {} /\ MinerIds = {}))

\* setMiners has returned with 2 of 4 nodes flagged after a repeated draw
C34_Witness ==
    /\ gpc = "miners_done" /\ redrawn
    /\ Len0(nodes) = 4 /\ minersFlag = 2
    /\ Cardinality(miners) = 2

\* C35: on a descriptor written by generateConfig (Period > 0)
\* MinTxInterval <= MaxTxInterval, and the transaction task's delay draw
\* never fails: while the task is at the draw, the only panic the process
\* can suffer is the sealing task's at its own pick.
C35_DelayDrawSucceeds ==
    /\ [](Global.Period > 0 => Global.MinTxInterval <= Global.MaxTxInterval)
    /\ [][(Global.Period > 0 /\ tpc = "timer" /\ epc # "panic" /\ epc' = "panic") =>
             spc = "pick"]_vars

\* C36: when LoadConfig fails on the data directory ethemu was started on,
\* no node is created or started, no peer is wired and no workload
\* goroutine is launched.
C36_LoadFailureAborts ==
    LoadConfig(file, ZeroConfig).err # "nil" =>
        /\ stacks = {} /\ eths = {} /\ started = {}
        /\ calls = EmptyBag
        /\ tpc = "none" /\ spc = "none"

\* C37: in block-height mode the expected height curHeight starts at 0,
\* changes only by growing by 1 in the step that calls Miner().Work(), and
\* every such step grows it; the driver ends the process exactly when it
\* reaches 110, that is after exactly 110 calls.
C37_ExactlyTargetSeals ==
    /\ []((hpc = "poll" /\ seals = 0) => curHeight = 0)
    /\ [][/\ curHeight' # curHeight => (curHeight' = curHeight + 1 /\ seals' = seals + 1)
          /\ seals' # seals => curHeight' = curHeight + 1]_vars
    /\ [](~txMode => /\ curHeight <= HeightTarget
                     /\ (epc = "exited" <=> curHeight = HeightTarget)
                     /\ (epc = "exited" => seals = HeightTarget))

\* the block-height driver has ended the process on a roster of 2 nodes
C37_Witness ==
    /\ ~txMode /\ epc = "exited" /\ blockLog = "synced"
    /\ seals = HeightTarget /\ curHeight = HeightTarget
    /\ Cardinality(RosterAddrs) = 2

\* C38: LoadConfig replaces the descriptor: after a LoadConfig that
\* returned nil on the config.json written from descriptor d, Global equals
\* d whatever it held before the call.
C38_LoadReplaces ==
    (cpc = "loaded" /\ err = "nil" /\ stored.isSome) => Global = stored.d

(***************************************************************************)
(* GetAddrById (emu/types.go:41-48).  A string is a sequence of letters    *)
(* and digits.                                                             *)
(***************************************************************************)
\* largest roster GetAddrById is called on
MaxLookupNodes == 4

\* "emu%d": the identity without padding
SprintfEmu06dMutant(n) == <<"e", "m", "u">> \o Digits(n)

\* line 43: fmt.Sprintf("emu%06d", node.Identity): the decimal digits of
\* the identity, with zeros in front of fewer than six
SprintfEmu06d(n) ==
    <<"e", "m", "u">> \o
        (IF Len(Digits(n)) >= 6 THEN Digits(n)
         ELSE [k \in 1..(6 - Len(Digits(n))) |-> 0] \o Digits(n))

\* lines 42-47: one iteration of the range over Global.Nodes, which yields
\* the keys in no fixed order: return the key of a node whose directory
\* name is idArg; after the last key return ErrAddrNotFound
GetAddrById ==
    /\ result = NoResult
    /\ IF ranging = {}
         THEN /\ result' = [addr |-> NoAddr, err |-> "ErrAddrNotFound"]
              /\ ranging' = ranging
         ELSE \E a \in ranging :
                IF SprintfEmu06d(NodeAt(a).Identity) = idArg
                  THEN result' = [addr |-> a, err |-> "nil"] /\ ranging' = ranging
                  ELSE result' = result /\ ranging' = ranging \ {a}
    /\ UNCHANGED <<genVars, cfgVars, orchVars, taskVars, benchVars, idArg>>

\* a process holding a generated roster calls GetAddrById with the
\* directory name of one of the identities 0..MaxLookupNodes, 10 and
\* 1234567, or with the empty string, "emu1", "emu0000001" or "emv000001"
LookupInit ==
    /\ \E num \in 0..MaxLookupNodes :
         Global = WithNodes(GenParams(1, 1, 2), Roster(num, {}, {}))
    /\ file = JsonFile(MarshalConfig(Global)) /\ stored = StoredFrom(Global)
    /\ err = "nil" /\ before = ZeroConfig /\ cpc = "idle"
    /\ GenIdle /\ EmuIdle
    /\ idArg \in {SprintfEmu06d(n) : n \in (0..MaxLookupNodes) \cup {10, 1234567}} \cup
                {<<>>, <<"e", "m", "u", 1>>, <<"e", "m", "u", 0, 0, 0, 0, 0, 0, 1>>,
                 <<"e", "m", "v", 0, 0, 0, 0, 0, 1>>}
    /\ ranging = RosterAddrs
    /\ result = NoResult

SpecLookup == LookupInit /\ [][GetAddrById]_vars

\* "emu" and the six decimal places of an identity below 10^6
PaddedId(n) ==
    <<"e", "m", "u">> \o
        <<(n \div 100000) % 10, (n \div 10000) % 10, (n \div 1000) % 10,
          (n \div 100) % 10, (n \div 10) % 10, n % 10>>

\* C39: on a roster with distinct identities GetAddrById returns, for the
\* padded id of a roster node, the address of exactly that node and nil,
\* and for an id that is no roster node's, the zero address and
\* ErrAddrNotFound; no step of it changes Global.
C39_LookupById ==
    /\ [](result # NoResult =>
             /\ \A a \in RosterAddrs :
                    idArg = PaddedId(NodeAt(a).Identity) => result = [addr |-> a, err |-> "nil"]
             /\ (\A a \in RosterAddrs : idArg # PaddedId(NodeAt(a).Identity)) =>
                    result = [addr |-> NoAddr, err |-> "ErrAddrNotFound"])
    /\ [][Global' = Global]_<<idArg, ranging, result>>

\* the lookup of "emu000002" on a roster of 4 nodes has returned node 2
\* after the range had yielded two other nodes
C39_Witness ==
    /\ Cardinality(RosterAddrs) = 4
    /\ idArg = PaddedId(2)
    /\ result = [addr |-> StoreKey(2), err |-> "nil"]
    /\ Cardinality(ranging) = 2

====
